---- MODULE Spec2Model ----
(***************************************************************************)
(* A model of iam-convert: the StringBuffer line buffer, the four          *)
(* converters (Terraform, CloudFormation, CDK TypeScript, CDK Python) and  *)
(* the convert() dispatcher.  Every string the program builds is built     *)
(* here the same way, by concatenation, so that an output line of the      *)
(* model is the output line of the program.                                *)
(***************************************************************************)
EXTENDS Integers, Sequences, FiniteSets, TLC

VARIABLES
    policy,     \* the caller's Policy object (its data, which convert() gets by reference)
    call,       \* the last call: [made, format, options, policy (as it was passed)]
    result,     \* its outcome: [status, error, text]
    trace,      \* what it did on the way: [instantiated, bufferCreated, lines]
    lineBuffer, \* a StringBuffer a caller drives directly, with what its callback saw
    bufferCall  \* the last call on it: [name, depth and lines before it, body]

vars == <<policy, call, result, trace, lineBuffer, bufferCall>>

(***************************************************************************)
(* JavaScript values                                                       *)
(***************************************************************************)

\* The value `undefined`, for an absent optional string or option.
Undefined == "<undefined>"

\* JavaScript truthiness of an optional string: undefined and '' are falsy.
Truthy(s) == s # Undefined /\ s # ""

\* `"${s}"`
Q(s) == "\"" \o s \o "\""

\* const x = value; F(x): the value is computed once, whatever F does with it.
Let(value, F(_)) == CHOOSE r \in { F(x) : x \in {value} } : TRUE

\* if (cond) { F(sb) }: the buffer after the optional step.
When(cond, sb, F(_)) == IF cond THEN F(sb) ELSE sb

\* seq.forEach((item, index) => ...) and for (const item of seq), threading
\* the state st through the body F(st, item, index); index is 0-based.
ForEach(seq, st0, F(_, _, _)) ==
    LET f[i \in 0..Len(seq)] ==
            IF i = 0 THEN st0 ELSE Let(f[i - 1], LAMBDA st : F(st, seq[i], i - 1))
    IN  f[Len(seq)]

(***************************************************************************)
(* StringBuffer                                                            *)
(***************************************************************************)

\* String.prototype.repeat
RECURSIVE repeat(_, _)
repeat(s, n) == IF n <= 0 THEN "" ELSE s \o repeat(s, n - 1)

\* new StringBuffer(indentBy, lineSeparator)
StringBuffer(indentBy, lineSeparator) ==
    [ buffer        |-> << >>,
      indentLevel   |-> 0,
      indentBy      |-> IF indentBy = Undefined THEN "  " ELSE indentBy,
      lineSeparator |-> IF lineSeparator = Undefined THEN "\n" ELSE lineSeparator ]

\* An exception thrown while a buffer is being written is a mark on the
\* buffer: no statement after the throw runs, so every method called on a
\* marked buffer leaves it as it is, until the exception is caught.
Raised(sb) == "thrown" \in DOMAIN sb /\ sb.thrown

\* throw new Error(...)
Raise(sb) ==
    IF Raised(sb) THEN sb
    ELSE [x \in DOMAIN sb \cup {"thrown"} |-> IF x = "thrown" THEN TRUE ELSE sb[x]]

\* A pushLine that leaves a line without text unindented.
pushLine_BareEmpty(sb, text) ==
    Let(sb, LAMBDA this :
        [this EXCEPT !.buffer =
             Append(@, IF text = "" THEN ""
                       ELSE repeat(this.indentBy, this.indentLevel) \o text)])

\* A pushLine that puts the line in front of the others.
pushLine_InFront(sb, text) ==
    Let(sb, LAMBDA this :
        [this EXCEPT !.buffer = <<repeat(this.indentBy, this.indentLevel) \o text>> \o @])

pushLine(sb, text) ==
    Let(sb, LAMBDA this :
        IF Raised(this) THEN this
        ELSE [this EXCEPT !.buffer =
                  Append(@, repeat(this.indentBy, this.indentLevel) \o text)])

\* An indent that goes two levels down.
indent_Twice(sb) == [sb EXCEPT !.indentLevel = @ + 2]

indent(sb) == IF Raised(sb) THEN sb ELSE [sb EXCEPT !.indentLevel = @ + 1]

\* An unindent that goes below depth 0.
unindent_NoClamp(sb) == [sb EXCEPT !.indentLevel = @ - 1]

\* An unindent that runs after a throw too, as in a `finally`.
unindent_Finally(sb) == [sb EXCEPT !.indentLevel = IF @ - 1 > 0 THEN @ - 1 ELSE 0]

unindent(sb) ==
    IF Raised(sb) THEN sb
    ELSE [sb EXCEPT !.indentLevel = IF @ - 1 > 0 THEN @ - 1 ELSE 0]

withIndent(sb, callback(_)) == unindent(callback(indent(sb)))

\* Array.prototype.join
RECURSIVE join(_, _)
join(lines, sep) ==
    IF Len(lines) = 0 THEN ""
    ELSE IF Len(lines) = 1 THEN lines[1]
    ELSE lines[1] \o sep \o join(Tail(lines), sep)

\* A toString that ends the text with a separator.
toString_Trailing(sb) == join(sb.buffer, sb.lineSeparator) \o sb.lineSeparator

toString(sb) == join(sb.buffer, sb.lineSeparator)

getBuffer(sb) == sb.buffer

\* A Policy object is any object with the accessor methods, and a method of
\* it may throw.  Throws as a statement's sid says that statement.sid()
\* throws; statement_sid(statement, sb) is the buffer once the renderer has
\* called it.
Throws == "<throws>"

statement_sid(statement, sb) == IF statement.sid = Throws THEN Raise(sb) ELSE sb


(***************************************************************************)
(* The policy model the converters read                                    *)
(*   policy    : [version, statements]                                     *)
(*   statement : [sid, effect, action, actions, resource, resources,       *)
(*                principal, principals, wildcard, conditions]             *)
(*   principal : [type, value]     condition : [op, key, values]           *)
(* `action` is "Action", "NotAction" or Undefined (which element the       *)
(* statement carries), and likewise `resource` and `principal`.            *)
(***************************************************************************)

isActionStatement(s)       == s.action = "Action"
isNotActionStatement(s)    == s.action = "NotAction"
isResourceStatement(s)     == s.resource = "Resource"
isNotResourceStatement(s)  == s.resource = "NotResource"
isPrincipalStatement(s)    == s.principal = "Principal"
isNotPrincipalStatement(s) == s.principal = "NotPrincipal"
isAllow(s)                 == s.effect = "Allow"

isDeny(s)                  == s.effect = "Deny"

(***************************************************************************)
(* TerraformConverter                                                      *)
(***************************************************************************)

\* A list body with a comma after every element, the last one too.
TfListItem_AlwaysComma(sb, value, index, count) ==
    pushLine(sb, Q(value) \o ",")

\* The list body shared by convertActions, convertResources, the principal
\* identifiers and the condition values: a comma after all but the last.
TfListItem(sb, value, index, count) ==
    pushLine(sb, IF count > 1 /\ index < count - 1 THEN Q(value) \o "," ELSE Q(value))

TfConvertActions(actions, statementBuffer) ==
    withIndent(statementBuffer,
        LAMBDA actionsBuffer :
            ForEach(actions, actionsBuffer,
                LAMBDA b, action, index : TfListItem(b, action, index, Len(actions))))

TfConvertResources(resources, statementBuffer) ==
    withIndent(statementBuffer,
        LAMBDA resourcesBuffer :
            ForEach(resources, resourcesBuffer,
                LAMBDA b, resource, index : TfListItem(b, resource, index, Len(resources))))

\* A grouping that opens a block for every principal, not for every type.
TfTypeOrder_PerPrincipal(principals, acc) ==
    [i \in DOMAIN principals |-> principals[i].type]

\* principals.reduce(...): the type tags in first-seen order (the insertion
\* order of the keys of principalsByType).
RECURSIVE TfTypeOrder(_, _)
TfTypeOrder(principals, acc) ==
    IF Len(principals) = 0 THEN acc
    ELSE LET type == Head(principals).type
         IN  TfTypeOrder(Tail(principals),
                 IF \E i \in 1..Len(acc) : acc[i] = type THEN acc ELSE Append(acc, type))

\* principalsByType[type]: the values of that type, in list order.
RECURSIVE TfPrincipalsForType(_, _)
TfPrincipalsForType(principals, type) ==
    IF Len(principals) = 0 THEN << >>
    ELSE IF Head(principals).type = type
         THEN <<Head(principals).value>> \o TfPrincipalsForType(Tail(principals), type)
         ELSE TfPrincipalsForType(Tail(principals), type)

\* A renderer without the wildcard path: the per-type blocks for every list.
TfConvertPrincipals_PerType(principals, principalType, hasSingleWildcard, statementBuffer) ==
    ForEach(TfTypeOrder(principals, << >>), statementBuffer,
        LAMBDA sb, type, n :
            LET principalsForType == TfPrincipalsForType(principals, type)
                b1 == pushLine(sb, principalType \o " {")
                b2 == withIndent(b1,
                          LAMBDA principalBuffer :
                              LET p1 == pushLine(principalBuffer,
                                            "type        = " \o Q(type))
                                  p2 == pushLine(p1, "identifiers = [")
                                  p3 == withIndent(p2,
                                            LAMBDA identifiersBuffer :
                                                ForEach(principalsForType, identifiersBuffer,
                                                    LAMBDA b, value, index :
                                                        TfListItem(b, value, index,
                                                            Len(principalsForType))))
                              IN  pushLine(p3, "]"))
            IN  pushLine(pushLine(b2, "}"), ""))

TfConvertPrincipals(principals, principalType, hasSingleWildcard, statementBuffer) ==
    IF hasSingleWildcard
    THEN LET b1 == pushLine(statementBuffer, principalType \o " {")
             b2 == withIndent(b1,
                       LAMBDA principalBuffer :
                           pushLine(pushLine(principalBuffer, "type        = \"*\""),
                                    "identifiers = \"*\""))
         IN  pushLine(pushLine(b2, "}"), "")
    ELSE ForEach(TfTypeOrder(principals, << >>), statementBuffer,
             LAMBDA sb, type, n :
                 LET principalsForType == TfPrincipalsForType(principals, type)
                     b1 == pushLine(sb, principalType \o " {")
                     b2 == withIndent(b1,
                               LAMBDA principalBuffer :
                                   LET p1 == pushLine(principalBuffer,
                                                 "type        = " \o Q(type))
                                       p2 == pushLine(p1, "identifiers = [")
                                       p3 == withIndent(p2,
                                                 LAMBDA identifiersBuffer :
                                                     ForEach(principalsForType, identifiersBuffer,
                                                         LAMBDA b, value, index :
                                                             TfListItem(b, value, index,
                                                                 Len(principalsForType))))
                                   IN  pushLine(p3, "]"))
                 IN  pushLine(pushLine(b2, "}"), ""))

\* The entries with those that share an operator and a key made one: the
\* first of them stays, with the values of all of them in entry order.
MergedConditions(conditions) ==
    LET same(i, j) == /\ conditions[i].op = conditions[j].op
                      /\ conditions[i].key = conditions[j].key
        firsts == SelectSeq([i \in DOMAIN conditions |-> i],
                            LAMBDA i : \A j \in 1..(i - 1) : ~same(i, j))
        valuesOf(i) ==
            LET f[n \in 0..Len(conditions)] ==
                    IF n = 0 THEN << >>
                    ELSE IF same(n, i) THEN f[n - 1] \o conditions[n].values
                    ELSE f[n - 1]
            IN  f[Len(conditions)]
    IN  [k \in DOMAIN firsts |->
            [op |-> conditions[firsts[k]].op, key |-> conditions[firsts[k]].key,
             values |-> valuesOf(firsts[k])]]

\* A convertConditions that writes one block per operator and key.
TfConvertConditions_Merged(conditions, statementBuffer) ==
    ForEach(MergedConditions(conditions), statementBuffer,
        LAMBDA sb, condition, n :
            LET b1 == pushLine(sb, "condition {")
                b2 == withIndent(b1,
                          LAMBDA conditionBuffer :
                              LET c1 == pushLine(conditionBuffer, "test     = " \o Q(condition.op))
                                  c2 == pushLine(c1, "variable = " \o Q(condition.key))
                                  c3 == pushLine(c2, "values   = [")
                                  c4 == withIndent(c3,
                                            LAMBDA valuesBuffer :
                                                ForEach(condition.values, valuesBuffer,
                                                    LAMBDA b, value, index :
                                                        TfListItem(b, value, index,
                                                            Len(condition.values))))
                              IN  pushLine(c4, "]"))
            IN  pushLine(pushLine(b2, "}"), ""))

TfConvertConditions(conditions, statementBuffer) ==
    ForEach(conditions, statementBuffer,
        LAMBDA sb, condition, n :
            LET b1 == pushLine(sb, "condition {")
                b2 == withIndent(b1,
                          LAMBDA conditionBuffer :
                              LET c1 == pushLine(conditionBuffer, "test     = " \o Q(condition.op))
                                  c2 == pushLine(c1, "variable = " \o Q(condition.key))
                                  c3 == pushLine(c2, "values   = [")
                                  c4 == withIndent(c3,
                                            LAMBDA valuesBuffer :
                                                ForEach(condition.values, valuesBuffer,
                                                    LAMBDA b, value, index :
                                                        TfListItem(b, value, index,
                                                            Len(condition.values))))
                              IN  pushLine(c4, "]"))
            IN  pushLine(pushLine(b2, "}"), ""))

\* The body of one `statement { ... }` block.
\* A statement body that prints the effect unless the statement is an Allow,
\* so also for a statement without an effect.
TfStatementBody_EffectUnlessAllow(statement, statementBuffer) ==
    LET s1 == When(Truthy(statement.sid), statement_sid(statement, statementBuffer),
                  LAMBDA b : pushLine(pushLine(b, "sid = " \o Q(statement.sid)), ""))
        s2 == When(~isAllow(statement), s1,
                  LAMBDA b : pushLine(b, "effect = \"Deny\""))
        s3 == When(isActionStatement(statement), s2,
                  LAMBDA b : pushLine(TfConvertActions(statement.actions,
                                 pushLine(b, "actions = [")), "]"))
        s4 == When(isNotActionStatement(statement), s3,
                  LAMBDA b : pushLine(TfConvertActions(statement.actions,
                                 pushLine(b, "not_actions = [")), "]"))
        s5 == When(isResourceStatement(statement), s4,
                  LAMBDA b : pushLine(TfConvertResources(statement.resources,
                                 pushLine(b, "resources = [")), "]"))
        s6 == When(isNotResourceStatement(statement), s5,
                  LAMBDA b : pushLine(TfConvertResources(statement.resources,
                                 pushLine(b, "not_resources = [")), "]"))
        s7 == When(isPrincipalStatement(statement), s6,
                  LAMBDA b : TfConvertPrincipals(statement.principals, "principals",
                                 statement.wildcard, b))
        s8 == When(isNotPrincipalStatement(statement), s7,
                  LAMBDA b : TfConvertPrincipals(statement.principals, "not_principals",
                                 statement.wildcard, b))
    IN  TfConvertConditions(statement.conditions, s8)

TfStatementBody(statement, statementBuffer) ==
    LET s1 == When(Truthy(statement.sid), statement_sid(statement, statementBuffer),
                  LAMBDA b : pushLine(pushLine(b, "sid = " \o Q(statement.sid)), ""))
        s2 == When(isDeny(statement), s1,
                  LAMBDA b : pushLine(b, "effect = \"Deny\""))
        s3 == When(isActionStatement(statement), s2,
                  LAMBDA b : pushLine(TfConvertActions(statement.actions,
                                 pushLine(b, "actions = [")), "]"))
        s4 == When(isNotActionStatement(statement), s3,
                  LAMBDA b : pushLine(TfConvertActions(statement.actions,
                                 pushLine(b, "not_actions = [")), "]"))
        s5 == When(isResourceStatement(statement), s4,
                  LAMBDA b : pushLine(TfConvertResources(statement.resources,
                                 pushLine(b, "resources = [")), "]"))
        s6 == When(isNotResourceStatement(statement), s5,
                  LAMBDA b : pushLine(TfConvertResources(statement.resources,
                                 pushLine(b, "not_resources = [")), "]"))
        s7 == When(isPrincipalStatement(statement), s6,
                  LAMBDA b : TfConvertPrincipals(statement.principals, "principals",
                                 statement.wildcard, b))
        s8 == When(isNotPrincipalStatement(statement), s7,
                  LAMBDA b : TfConvertPrincipals(statement.principals, "not_principals",
                                 statement.wildcard, b))
    IN  TfConvertConditions(statement.conditions, s8)

\* A convert that prints every version the document has, the default too.
TerraformConverter_convert_AnyVersion(p, stringBuffer) ==
    LET b1 == pushLine(stringBuffer, "data \"aws_iam_policy_document\" \"policy\" {")
        b2 == withIndent(b1,
                  LAMBDA policyBuffer :
                      LET v1 == When(Truthy(p.version), policyBuffer,
                                    LAMBDA b : pushLine(b, "version = " \o Q(p.version)))
                      IN  ForEach(p.statements, v1,
                              LAMBDA sb, statement, n :
                                  pushLine(
                                      withIndent(pushLine(sb, "statement {"),
                                          LAMBDA statementBuffer :
                                              TfStatementBody(statement, statementBuffer)),
                                      "}")))
        b3 == unindent(indent(b2))
    IN  pushLine(b3, "}")

TerraformConverter_convert(p, stringBuffer) ==
    LET b1 == pushLine(stringBuffer, "data \"aws_iam_policy_document\" \"policy\" {")
        b2 == withIndent(b1,
                  LAMBDA policyBuffer :
                      LET v1 == When(Truthy(p.version) /\ p.version # "2012-10-17",
                                    policyBuffer,
                                    LAMBDA b : pushLine(b, "version = " \o Q(p.version)))
                      IN  ForEach(p.statements, v1,
                              LAMBDA sb, statement, n :
                                  pushLine(
                                      withIndent(pushLine(sb, "statement {"),
                                          LAMBDA statementBuffer :
                                              TfStatementBody(statement, statementBuffer)),
                                      "}")))
        b3 == unindent(indent(b2))
    IN  pushLine(b3, "}")

(***************************************************************************)
(* The conditionMap of the two CDK converters: a JavaScript object         *)
(*   { [operator]: { [key]: string | string[] } }                          *)
(* kept as the sequence of its own properties in insertion order (the      *)
(* order Object.entries walks).  A property value is                       *)
(*   [kind |-> "string", s]      a single string,                          *)
(*   [kind |-> "array", items]   an array the converter created itself,    *)
(*   [kind |-> "alias", cond]    the very array conditionValues() returned *)
(*                               for condition number `cond`.              *)
(***************************************************************************)

StringVal(s)    == [kind |-> "string", s |-> s, items |-> << >>, cond |-> 0]
ArrayVal(items) == [kind |-> "array", s |-> "", items |-> items, cond |-> 0]
AliasVal(i)     == [kind |-> "alias", s |-> "", items |-> << >>, cond |-> i]

\* The index of `name` among the properties `props` (each [name, val]), 0 if absent.
PropIndex(props, name) ==
    IF \E i \in 1..Len(props) : props[i].name = name
    THEN CHOOSE i \in 1..Len(props) : props[i].name = name
    ELSE 0

\* obj[name] = val: an existing property keeps its place, a new one goes last.
PropSet(props, name, val) ==
    LET i == PropIndex(props, name)
    IN  IF i = 0 THEN Append(props, [name |-> name, val |-> val])
        ELSE [props EXCEPT ![i].val = val]

\* !obj[name] for a property holding a string or an array: an absent property
\* and the empty string are falsy, every array is truthy.
PropFalsy(props, name) ==
    LET i == PropIndex(props, name)
    IN  i = 0 \/ (props[i].val.kind = "string" /\ props[i].val.s = "")

\* if (!conditionMap[operator]) conditionMap[operator] = {}
WithOperator(map, operator) ==
    IF PropIndex(map, operator) = 0 THEN PropSet(map, operator, << >>) ELSE map

\* Array.isArray(val)
IsArray(val) == val.kind \in {"array", "alias"}

\* The elements of a property value that is an array, read from the heap.
ArrayItems(val, conditions) ==
    IF val.kind = "alias" THEN conditions[val.cond].values ELSE val.items

(***************************************************************************)
(* CdkTypescriptConverter                                                  *)
(***************************************************************************)

\* An action list with a comma after every element, the last one too, as the
\* resource list has.
CdkTsConvertActions_AlwaysComma(actions, propertyName, sb) ==
    IF Len(actions) = 0 THEN sb
    ELSE LET b1 == pushLine(sb, propertyName \o ": [")
             b2 == withIndent(b1,
                       LAMBDA arrBuffer :
                           ForEach(actions, arrBuffer,
                               LAMBDA b, action, index : pushLine(b, Q(action) \o ",")))
         IN  pushLine(b2, "],")

CdkTsConvertActions(actions, propertyName, sb) ==
    IF Len(actions) = 0 THEN sb
    ELSE LET b1 == pushLine(sb, propertyName \o ": [")
             b2 == withIndent(b1,
                       LAMBDA arrBuffer :
                           ForEach(actions, arrBuffer,
                               LAMBDA b, action, index :
                                   pushLine(b, IF index < Len(actions) - 1
                                               THEN Q(action) \o "," ELSE Q(action))))
         IN  pushLine(b2, "],")

CdkTsConvertResources(resources, propertyName, sb) ==
    IF Len(resources) = 0 THEN sb
    ELSE LET b1 == pushLine(sb, propertyName \o ": [")
             b2 == withIndent(b1,
                       LAMBDA arrBuffer :
                           ForEach(resources, arrBuffer,
                               LAMBDA b, res, index : pushLine(b, Q(res) \o ",")))
         IN  pushLine(b2, "],")

CdkTsPrincipalCtor(p) ==
    IF p.type = "AWS" THEN "new iam.ArnPrincipal(" \o Q(p.value) \o ")"
    ELSE IF p.type = "Service" THEN "new iam.ServicePrincipal(" \o Q(p.value) \o ")"
    ELSE IF p.type = "Federated" THEN "new iam.FederatedPrincipal(" \o Q(p.value) \o ")"
    ELSE IF p.type = "CanonicalUser" THEN "new iam.CanonicalUserPrincipal(" \o Q(p.value) \o ")"
    ELSE "new iam.ArnPrincipal(" \o Q(p.value) \o ")"

CdkTsConvertPrincipals(principals, propertyName, hasSingleWildcard, sb) ==
    IF hasSingleWildcard THEN pushLine(sb, propertyName \o ": [new iam.StarPrincipal()],")
    ELSE IF Len(principals) = 0 THEN sb
    ELSE LET b1 == pushLine(sb, propertyName \o ": [")
             b2 == withIndent(b1,
                       LAMBDA arrBuffer :
                           ForEach(principals, arrBuffer,
                               LAMBDA b, p, index : pushLine(b, CdkTsPrincipalCtor(p) \o ",")))
         IN  pushLine(b2, "],")

\* The loop that fills conditionMap.  Its state is the map and the statement's
\* conditions: values.length !== 1 stores the array conditionValues() returned,
\* not a copy, so a later existing.push(...values) writes into the condition.
CdkTsConditionMap(conditions) ==
    ForEach(conditions, [map |-> << >>, conditions |-> conditions],
        LAMBDA st, cond, index :
            LET operator     == cond.op
                conditionKey == cond.key
                values       == st.conditions[index + 1].values
                map1         == WithOperator(st.map, operator)
                o            == PropIndex(map1, operator)
                keyMap       == map1[o].val
            IN  IF PropFalsy(keyMap, conditionKey)
                THEN [st EXCEPT !.map = [map1 EXCEPT ![o].val =
                         PropSet(keyMap, conditionKey,
                             IF Len(values) = 1 THEN StringVal(values[1])
                             ELSE AliasVal(index + 1))]]
                ELSE LET existing == keyMap[PropIndex(keyMap, conditionKey)].val
                     IN  IF existing.kind = "alias"
                         THEN [st EXCEPT !.map = map1,
                                         !.conditions[existing.cond].values = @ \o values]
                         ELSE IF existing.kind = "array"
                         THEN [st EXCEPT !.map = [map1 EXCEPT ![o].val =
                                  PropSet(keyMap, conditionKey,
                                      ArrayVal(existing.items \o values))]]
                         ELSE [st EXCEPT !.map = [map1 EXCEPT ![o].val =
                                  PropSet(keyMap, conditionKey,
                                      ArrayVal(<<existing.s>> \o values))]])

\* Returns the buffer and the statement's conditions as the call leaves them.
CdkTsConvertConditions(conditions, sb) ==
    IF Len(conditions) = 0 THEN [sb |-> sb, conditions |-> conditions]
    ELSE Let(CdkTsConditionMap(conditions), LAMBDA merged :
         LET b1 == pushLine(sb, "conditions: {")
             b2 == withIndent(b1,
                       LAMBDA condBuffer :
                           ForEach(merged.map, condBuffer,
                               LAMBDA cb, opEntry, i :
                                   pushLine(
                                       withIndent(pushLine(cb, opEntry.name \o ": {"),
                                           LAMBDA opBuffer :
                                               ForEach(opEntry.val, opBuffer,
                                                   LAMBDA ob, kv, j :
                                                       IF IsArray(kv.val)
                                                       THEN pushLine(
                                                                withIndent(pushLine(ob, Q(kv.name) \o ": ["),
                                                                    LAMBDA arrBuffer :
                                                                        ForEach(ArrayItems(kv.val, merged.conditions),
                                                                            arrBuffer,
                                                                            LAMBDA ab, v, k : pushLine(ab, Q(v) \o ","))),
                                                                "],")
                                                       ELSE pushLine(ob, Q(kv.name) \o ": " \o Q(kv.val.s) \o ","))),
                                       "},")))
         IN  [sb |-> pushLine(b2, "},"), conditions |-> merged.conditions])

\* The body of one `new iam.PolicyStatement({ ... })`.
\* A statement body that prints the effect only for a Deny, as the Python
\* renderer does.
CdkTsStatementBody_DenyOnly(statement, stmtBuffer) ==
    LET s1 == When(Truthy(statement.sid), statement_sid(statement, stmtBuffer),
                  LAMBDA b : pushLine(b, "sid: " \o Q(statement.sid) \o ","))
        s2 == When(isDeny(statement), s1,
                  LAMBDA b : pushLine(b, "effect: iam.Effect.DENY,"))
        s3 == When(isActionStatement(statement) \/ isNotActionStatement(statement), s2,
                  LAMBDA b : CdkTsConvertActions(statement.actions,
                                 IF isActionStatement(statement)
                                 THEN "actions" ELSE "notActions", b))
        s4 == When(isResourceStatement(statement) \/ isNotResourceStatement(statement), s3,
                  LAMBDA b : CdkTsConvertResources(statement.resources,
                                 IF isResourceStatement(statement)
                                 THEN "resources" ELSE "notResources", b))
        s5 == When(isPrincipalStatement(statement) \/ isNotPrincipalStatement(statement), s4,
                  LAMBDA b : CdkTsConvertPrincipals(statement.principals,
                                 IF isPrincipalStatement(statement)
                                 THEN "principals" ELSE "notPrincipals",
                                 statement.wildcard, b))
    IN  CdkTsConvertConditions(statement.conditions, s5)

CdkTsStatementBody(statement, stmtBuffer) ==
    LET s1 == When(Truthy(statement.sid), statement_sid(statement, stmtBuffer),
                  LAMBDA b : pushLine(b, "sid: " \o Q(statement.sid) \o ","))
        effect == IF isDeny(statement) THEN "DENY" ELSE "ALLOW"
        s2 == When(Truthy(statement.effect), s1,
                  LAMBDA b : pushLine(b, "effect: iam.Effect." \o effect \o ","))
        s3 == When(isActionStatement(statement) \/ isNotActionStatement(statement), s2,
                  LAMBDA b : CdkTsConvertActions(statement.actions,
                                 IF isActionStatement(statement)
                                 THEN "actions" ELSE "notActions", b))
        s4 == When(isResourceStatement(statement) \/ isNotResourceStatement(statement), s3,
                  LAMBDA b : CdkTsConvertResources(statement.resources,
                                 IF isResourceStatement(statement)
                                 THEN "resources" ELSE "notResources", b))
        s5 == When(isPrincipalStatement(statement) \/ isNotPrincipalStatement(statement), s4,
                  LAMBDA b : CdkTsConvertPrincipals(statement.principals,
                                 IF isPrincipalStatement(statement)
                                 THEN "principals" ELSE "notPrincipals",
                                 statement.wildcard, b))
    IN  CdkTsConvertConditions(statement.conditions, s5)

\* A convert that closes every statement with `}),`, the last one too.
CdkTypescriptConverter_convert_AlwaysComma(p, sb, options) ==
    LET variableName == IF Truthy(options.variableName)
                        THEN options.variableName ELSE "policyDocument"
        b1 == pushLine(sb, "const " \o variableName \o " = new iam.PolicyDocument({")
        b2 == pushLine(indent(b1), "statements: [")
        st == ForEach(p.statements, [sb |-> indent(b2), statements |-> p.statements],
                  LAMBDA acc, statement, idx :
                      Let(CdkTsStatementBody(statement,
                              indent(pushLine(acc.sb, "new iam.PolicyStatement({"))),
                          LAMBDA body :
                              [sb |-> pushLine(unindent(body.sb), "}),"),
                               statements |->
                                   [acc.statements EXCEPT ![idx + 1].conditions =
                                        body.conditions]]))
    IN  Let(st, LAMBDA done :
            [sb |-> pushLine(unindent(pushLine(unindent(done.sb), "]")), "});"),
             policy |-> [p EXCEPT !.statements = done.statements]])

\* Returns the buffer and the policy as the call leaves it.
CdkTypescriptConverter_convert(p, sb, options) ==
    LET variableName == IF Truthy(options.variableName)
                        THEN options.variableName ELSE "policyDocument"
        b1 == pushLine(sb, "const " \o variableName \o " = new iam.PolicyDocument({")
        b2 == pushLine(indent(b1), "statements: [")
        st == ForEach(p.statements, [sb |-> indent(b2), statements |-> p.statements],
                  LAMBDA acc, statement, idx :
                      Let(CdkTsStatementBody(statement,
                              indent(pushLine(acc.sb, "new iam.PolicyStatement({"))),
                          LAMBDA body :
                              [sb |-> IF idx = Len(p.statements) - 1
                                      THEN pushLine(unindent(body.sb), "})")
                                      ELSE pushLine(unindent(body.sb), "}),"),
                               statements |->
                                   [acc.statements EXCEPT ![idx + 1].conditions =
                                        body.conditions]]))
    IN  Let(st, LAMBDA done :
            [sb |-> pushLine(unindent(pushLine(unindent(done.sb), "]")), "});"),
             policy |-> [p EXCEPT !.statements = done.statements]])

(***************************************************************************)
(* CdkPythonConverter                                                      *)
(***************************************************************************)

CdkPyConvertActions(actions, propertyName, sb) ==
    IF Len(actions) = 0 THEN sb
    ELSE LET b1 == pushLine(sb, propertyName \o "=[")
             b2 == withIndent(b1,
                       LAMBDA arrBuffer :
                           ForEach(actions, arrBuffer,
                               LAMBDA b, action, index : pushLine(b, Q(action) \o ",")))
         IN  pushLine(b2, "],")

CdkPyConvertResources(resources, propertyName, sb) ==
    IF Len(resources) = 0 THEN sb
    ELSE LET b1 == pushLine(sb, propertyName \o "=[")
             b2 == withIndent(b1,
                       LAMBDA arrBuffer :
                           ForEach(resources, arrBuffer,
                               LAMBDA b, res, index : pushLine(b, Q(res) \o ",")))
         IN  pushLine(b2, "],")

\* A mapping with a constructor of its own for CanonicalUser, as the
\* TypeScript renderer has.
CdkPyPrincipalCtor_Canonical(p) ==
    IF p.type = "AWS"
    THEN IF p.value = "*" THEN "iam.AnyPrincipal()"
         ELSE "iam.ArnPrincipal(" \o Q(p.value) \o ")"
    ELSE IF p.type = "Service" THEN "iam.ServicePrincipal(" \o Q(p.value) \o ")"
    ELSE IF p.type = "Federated" THEN "iam.FederatedPrincipal(" \o Q(p.value) \o ")"
    ELSE IF p.type = "CanonicalUser" THEN "iam.CanonicalUserPrincipal(" \o Q(p.value) \o ")"
    ELSE "iam.ArnPrincipal(" \o Q(p.value) \o ")"

CdkPyPrincipalCtor(p) ==
    IF p.type = "AWS"
    THEN IF p.value = "*" THEN "iam.AnyPrincipal()"
         ELSE "iam.ArnPrincipal(" \o Q(p.value) \o ")"
    ELSE IF p.type = "Service" THEN "iam.ServicePrincipal(" \o Q(p.value) \o ")"
    ELSE IF p.type = "Federated" THEN "iam.FederatedPrincipal(" \o Q(p.value) \o ")"
    ELSE "iam.ArnPrincipal(" \o Q(p.value) \o ")"

CdkPyConvertPrincipals(principals, propertyName, hasSingleWildcard, sb) ==
    IF hasSingleWildcard THEN pushLine(sb, propertyName \o "=[iam.StarPrincipal()],")
    ELSE IF Len(principals) = 0 THEN sb
    ELSE LET b1 == pushLine(sb, propertyName \o "=[")
             b2 == withIndent(b1,
                       LAMBDA arrBuffer :
                           ForEach(principals, arrBuffer,
                               LAMBDA b, p, index : pushLine(b, CdkPyPrincipalCtor(p) \o ",")))
         IN  pushLine(b2, "],")

\* The loop that fills conditionMap; vals.length !== 1 stores a copy, [...vals].
CdkPyConditionMap(conditions) ==
    ForEach(conditions, << >>,
        LAMBDA map, cond, index :
            LET operator == cond.op
                key      == cond.key
                vals     == cond.values
                map1     == WithOperator(map, operator)
                o        == PropIndex(map1, operator)
                keyMap   == map1[o].val
            IN  IF PropFalsy(keyMap, key)
                THEN [map1 EXCEPT ![o].val =
                         PropSet(keyMap, key,
                             IF Len(vals) = 1 THEN StringVal(vals[1]) ELSE ArrayVal(vals))]
                ELSE LET existing == keyMap[PropIndex(keyMap, key)].val
                     IN  IF IsArray(existing)
                         THEN [map1 EXCEPT ![o].val =
                                  PropSet(keyMap, key, ArrayVal(existing.items \o vals))]
                         ELSE [map1 EXCEPT ![o].val =
                                  PropSet(keyMap, key, ArrayVal(<<existing.s>> \o vals))])

CdkPyConvertConditions(conditions, sb) ==
    IF Len(conditions) = 0 THEN sb
    ELSE LET conditionMap == CdkPyConditionMap(conditions)
             b1 == pushLine(sb, "conditions={")
             b2 == withIndent(b1,
                       LAMBDA conditionsBuffer :
                           ForEach(conditionMap, conditionsBuffer,
                               LAMBDA cb, opEntry, i :
                                   pushLine(
                                       withIndent(pushLine(cb, Q(opEntry.name) \o ": {"),
                                           LAMBDA opBuffer :
                                               ForEach(opEntry.val, opBuffer,
                                                   LAMBDA ob, kv, j :
                                                       IF IsArray(kv.val)
                                                       THEN pushLine(
                                                                withIndent(pushLine(ob, Q(kv.name) \o ": ["),
                                                                    LAMBDA arrBuffer :
                                                                        ForEach(kv.val.items, arrBuffer,
                                                                            LAMBDA ab, item, k :
                                                                                pushLine(ab, Q(item) \o ","))),
                                                                "],")
                                                       ELSE pushLine(ob, Q(kv.name) \o ": " \o Q(kv.val.s) \o ","))),
                                       "},")))
         IN  pushLine(b2, "},")

\* The body of one `iam.PolicyStatement( ... )`.
\* A statement body that prints the effect whenever the statement has one,
\* as the TypeScript renderer does.
CdkPyStatementBody_AnyEffect(statement, stmtBuffer) ==
    LET s1 == When(Truthy(statement.sid), statement_sid(statement, stmtBuffer),
                  LAMBDA b : pushLine(b, "sid=" \o Q(statement.sid) \o ","))
        s2 == When(Truthy(statement.effect), s1,
                  LAMBDA b : pushLine(b, "effect=Effect." \o
                                 (IF isDeny(statement) THEN "DENY" ELSE "ALLOW") \o ","))
        s3 == When(isActionStatement(statement) \/ isNotActionStatement(statement), s2,
                  LAMBDA b : CdkPyConvertActions(statement.actions,
                                 IF isActionStatement(statement)
                                 THEN "actions" ELSE "not_actions", b))
        s4 == When(isResourceStatement(statement) \/ isNotResourceStatement(statement), s3,
                  LAMBDA b : CdkPyConvertResources(statement.resources,
                                 IF isResourceStatement(statement)
                                 THEN "resources" ELSE "not_resources", b))
        s5 == When(isPrincipalStatement(statement) \/ isNotPrincipalStatement(statement), s4,
                  LAMBDA b : CdkPyConvertPrincipals(statement.principals,
                                 IF isPrincipalStatement(statement)
                                 THEN "principals" ELSE "not_principals",
                                 statement.wildcard, b))
    IN  CdkPyConvertConditions(statement.conditions, s5)

CdkPyStatementBody(statement, stmtBuffer) ==
    LET s1 == When(Truthy(statement.sid), statement_sid(statement, stmtBuffer),
                  LAMBDA b : pushLine(b, "sid=" \o Q(statement.sid) \o ","))
        s2 == When(Truthy(statement.effect) /\ ~isAllow(statement), s1,
                  LAMBDA b : pushLine(b, "effect=Effect.DENY,"))
        s3 == When(isActionStatement(statement) \/ isNotActionStatement(statement), s2,
                  LAMBDA b : CdkPyConvertActions(statement.actions,
                                 IF isActionStatement(statement)
                                 THEN "actions" ELSE "not_actions", b))
        s4 == When(isResourceStatement(statement) \/ isNotResourceStatement(statement), s3,
                  LAMBDA b : CdkPyConvertResources(statement.resources,
                                 IF isResourceStatement(statement)
                                 THEN "resources" ELSE "not_resources", b))
        s5 == When(isPrincipalStatement(statement) \/ isNotPrincipalStatement(statement), s4,
                  LAMBDA b : CdkPyConvertPrincipals(statement.principals,
                                 IF isPrincipalStatement(statement)
                                 THEN "principals" ELSE "not_principals",
                                 statement.wildcard, b))
    IN  CdkPyConvertConditions(statement.conditions, s5)

\* convert(policy, sb): the method declares no options parameter.
CdkPythonConverter_convert(p, sb) ==
    LET b1 == pushLine(sb, "policy_document = iam.PolicyDocument(")
        b2 == withIndent(b1,
                  LAMBDA docBuffer :
                      pushLine(
                          withIndent(pushLine(docBuffer, "statements=["),
                              LAMBDA statementsBuffer :
                                  ForEach(p.statements, statementsBuffer,
                                      LAMBDA b, statement, idx :
                                          pushLine(
                                              withIndent(pushLine(b, "iam.PolicyStatement("),
                                                  LAMBDA stmtBuffer :
                                                      CdkPyStatementBody(statement, stmtBuffer)),
                                              "),"))),
                          "],"))
    IN  pushLine(b2, ")")

(***************************************************************************)
(* CloudFormationConverter.  It walks the raw JSON of the policy:          *)
(*   [t |-> "null"], [t |-> "string", s], [t |-> "number", s],             *)
(*   [t |-> "boolean", s] (s is what String(value) gives),                 *)
(*   [t |-> "array", items], [t |-> "object", items] with items the        *)
(*   properties [name, val] in Object.keys order.                          *)
(***************************************************************************)

JNull        == [t |-> "null", s |-> "null", items |-> << >>]
JString(s)   == [t |-> "string", s |-> s, items |-> << >>]
JNumber(s)   == [t |-> "number", s |-> s, items |-> << >>]
JBoolean(s)  == [t |-> "boolean", s |-> s, items |-> << >>]
JArray(xs)   == [t |-> "array", s |-> "", items |-> xs]
JObject(ps)  == [t |-> "object", s |-> "", items |-> ps]

isPrimitiveOrNull(value) == value.t \in {"null", "string", "number", "boolean"}

\* A stringifyScalar that puts every scalar between quotes.
stringifyScalar_QuoteAll(value) == Q(value.s)

stringifyScalar(value) ==
    IF value.t = "null" THEN "null"
    ELSE IF value.t = "string" THEN Q(value.s)
    ELSE value.s

\* The characters of [a-zA-Z0-9_].
WordChars ==
    { "a", "b", "c", "d", "e", "f", "g", "h", "i", "j", "k", "l", "m",
      "n", "o", "p", "q", "r", "s", "t", "u", "v", "w", "x", "y", "z",
      "A", "B", "C", "D", "E", "F", "G", "H", "I", "J", "K", "L", "M",
      "N", "O", "P", "Q", "R", "S", "T", "U", "V", "W", "X", "Y", "Z",
      "0", "1", "2", "3", "4", "5", "6", "7", "8", "9", "_" }

\* /^[a-zA-Z0-9_]+$/.test(key)
IsPlainKey(key) ==
    Len(key) > 0 /\ \A i \in 1..Len(key) : SubSeq(key, i, i) \in WordChars

\* key.startsWith('- ')
StartsWithDash(key) == Len(key) >= 2 /\ SubSeq(key, 1, 2) = "- "

\* A yamlKey that quotes the whole text it is given, a leading dash too.
yamlKey_QuoteWhole(key) == IF IsPlainKey(key) THEN key ELSE Q(key)

RECURSIVE yamlKey(_)
yamlKey(key) ==
    IF StartsWithDash(key) THEN "- " \o yamlKey(SubSeq(key, 3, Len(key)))
    ELSE IF IsPlainKey(key) THEN key
    ELSE Q(key)

RECURSIVE writeYamlValue(_, _, _)
RECURSIVE pushObjectValue(_, _, _)

writeYamlValue(value, sb, startWithDash) ==
    IF value.t = "null" THEN pushLine(sb, "null")
    ELSE IF value.t = "array"
    THEN IF Len(value.items) = 0 THEN pushLine(sb, "[]")
         ELSE ForEach(value.items, sb,
                  LAMBDA b, element, i :
                      IF isPrimitiveOrNull(element)
                      THEN pushLine(b, "- " \o stringifyScalar(element))
                      ELSE writeYamlValue(element, b, TRUE))
    ELSE IF value.t = "object"
    THEN IF Len(value.items) = 0 THEN pushLine(sb, "{}")
         ELSE LET firstKey == Head(value.items)
                  restKeys == Tail(value.items)
                  dash     == IF startWithDash THEN "- " ELSE ""
                  b1 == pushObjectValue(dash \o firstKey.name, firstKey.val, sb)
                  b2 == IF startWithDash THEN indent(b1) ELSE b1
                  b3 == ForEach(restKeys, b2,
                            LAMBDA b, kv, i : pushObjectValue(kv.name, kv.val, b))
              IN  IF startWithDash THEN unindent(b3) ELSE b3
    ELSE pushLine(sb, stringifyScalar(value))

\* A pushObjectValue that writes the nested value at the depth of its key.
pushObjectValue_Flat(key, value, buffer) ==
    IF isPrimitiveOrNull(value)
    THEN pushLine(buffer, yamlKey(key) \o ": " \o stringifyScalar(value))
    ELSE writeYamlValue(value, pushLine(buffer, yamlKey(key) \o ":"), FALSE)

pushObjectValue(key, value, buffer) ==
    IF isPrimitiveOrNull(value)
    THEN pushLine(buffer, yamlKey(key) \o ": " \o stringifyScalar(value))
    ELSE withIndent(pushLine(buffer, yamlKey(key) \o ":"),
             LAMBDA childBuffer : writeYamlValue(value, childBuffer, FALSE))

\* Array.map over a sequence.
Map(seq, F(_)) == [i \in 1..Len(seq) |-> F(seq[i])]

\* The properties among `props` that are present, as [name, val].
RECURSIVE Present(_)
Present(props) ==
    IF Len(props) = 0 THEN << >>
    ELSE IF ~Head(props).present THEN Present(Tail(props))
    ELSE <<[name |-> Head(props).name, val |-> Head(props).val]>> \o Present(Tail(props))

\* policy.toJSON(): the raw document the accessors are views of, with every
\* list written as an array and the elements in the usual order.
JStrings(values) == JArray(Map(values, LAMBDA v : JString(v)))

PrincipalJSON(principals, wildcard) ==
    IF wildcard THEN JString("*")
    ELSE JObject(Map(TfTypeOrder(principals, << >>),
             LAMBDA type : [name |-> type,
                            val  |-> JStrings(TfPrincipalsForType(principals, type))]))

\* { [operator]: { [key]: values } }: an object holds a name once, so of two
\* entries with the same operator and key the later one stays, at the place
\* of the first.
ConditionJSON(conditions) ==
    LET raw == ForEach(conditions, << >>,
                   LAMBDA obj, cond, i :
                       LET obj1 == WithOperator(obj, cond.op)
                           o    == PropIndex(obj1, cond.op)
                       IN  [obj1 EXCEPT ![o].val = PropSet(@, cond.key, JStrings(cond.values))])
    IN  JObject(Map(raw, LAMBDA opEntry : [name |-> opEntry.name, val |-> JObject(opEntry.val)]))

Opt(name, present, json) == [name |-> name, present |-> present, val |-> json]

StatementJSON(s) ==
    JObject(Present(<<
        Opt("Sid", s.sid # Undefined, JString(s.sid)),
        Opt("Effect", s.effect # Undefined, JString(s.effect)),
        Opt(IF s.principal = Undefined THEN "Principal" ELSE s.principal,
            s.principal # Undefined, PrincipalJSON(s.principals, s.wildcard)),
        Opt(IF s.action = Undefined THEN "Action" ELSE s.action,
            s.action # Undefined, JStrings(s.actions)),
        Opt(IF s.resource = Undefined THEN "Resource" ELSE s.resource,
            s.resource # Undefined, JStrings(s.resources)),
        Opt("Condition", Len(s.conditions) > 0, ConditionJSON(s.conditions)) >>))

toJSON(p) ==
    IF "raw" \in DOMAIN p THEN p.raw
    ELSE JObject(Present(<<
        Opt("Version", p.version # Undefined, JString(p.version)),
        Opt("Statement", TRUE, JArray(Map(p.statements, LAMBDA s : StatementJSON(s)))) >>))

CloudFormationConverter_convert(p, sb) ==
    LET policyJson == toJSON(p)
        b1 == pushLine(sb, "PolicyDocument:")
    IN  withIndent(b1, LAMBDA docBuffer : writeYamlValue(policyJson, docBuffer, FALSE))

(***************************************************************************)
(* convert(): the registry and the dispatcher                              *)
(***************************************************************************)

\* The own properties of the `converters` object.
Registered == {"tf", "cf", "cdk-ts", "cdk-py"}

\* converters[format].  The object literal inherits from Object.prototype:
\* 'constructor' reads the Object constructor and every other inherited name
\* (toString, valueOf, hasOwnProperty, ...) a built-in method, which is a
\* function but no constructor ('__proto__' reads Object.prototype itself,
\* no constructor either).  Any other name reads undefined.
InheritedMethods ==
    { "toString", "toLocaleString", "valueOf", "hasOwnProperty", "isPrototypeOf",
      "propertyIsEnumerable", "__defineGetter__", "__defineSetter__",
      "__lookupGetter__", "__lookupSetter__", "__proto__" }

Lookup(format) ==
    IF format \in Registered THEN format
    ELSE IF format = "constructor" THEN "Object"
    ELSE IF format \in InheritedMethods THEN "method"
    ELSE Undefined

\* An options argument: `has` holds the names of its own properties.
OptionNames == {"indentBy", "lineSeparator", "variableName"}

NoOptions ==
    [has |-> {}, indentBy |-> Undefined, lineSeparator |-> Undefined,
     variableName |-> Undefined]

defaultOptions ==
    [has |-> {"indentBy", "lineSeparator"}, indentBy |-> "  ", lineSeparator |-> "\n",
     variableName |-> Undefined]

\* { ...defaultOptions, ...(options || {}) }
MergeOptions_DefaultsWin(options) ==
    [ has           |-> defaultOptions.has \cup options.has,
      indentBy      |-> IF "indentBy" \in defaultOptions.has
                        THEN defaultOptions.indentBy ELSE options.indentBy,
      lineSeparator |-> IF "lineSeparator" \in defaultOptions.has
                        THEN defaultOptions.lineSeparator ELSE options.lineSeparator,
      variableName  |-> IF "variableName" \in defaultOptions.has
                        THEN defaultOptions.variableName ELSE options.variableName ]

MergeOptions(options) ==
    [ has           |-> defaultOptions.has \cup options.has,
      indentBy      |-> IF "indentBy" \in options.has
                        THEN options.indentBy ELSE defaultOptions.indentBy,
      lineSeparator |-> IF "lineSeparator" \in options.has
                        THEN options.lineSeparator ELSE defaultOptions.lineSeparator,
      variableName  |-> IF "variableName" \in options.has
                        THEN options.variableName ELSE defaultOptions.variableName ]

Thrown(name, message, instantiated, bufferCreated, p) ==
    [ status |-> "error", error |-> [name |-> name, message |-> message],
      text |-> Undefined, instantiated |-> instantiated,
      bufferCreated |-> bufferCreated, lines |-> << >>, depth |-> 0, policy |-> p ]

\* converter.convert(...) returned, or threw: convert has no try, so what the
\* converter throws leaves convert before `return stringBuffer.toString()`.
\* lines and depth are the buffer's as the call left it.
Returned(sb, p) ==
    Let(sb, LAMBDA stringBuffer :
        IF Raised(stringBuffer)
        THEN [ status |-> "error", error |-> [name |-> "Error", message |-> "sid"],
               text |-> Undefined, instantiated |-> TRUE, bufferCreated |-> TRUE,
               lines |-> getBuffer(stringBuffer), depth |-> stringBuffer.indentLevel,
               policy |-> p ]
        ELSE [ status |-> "ok", error |-> [name |-> Undefined, message |-> Undefined],
               text |-> toString(stringBuffer), instantiated |-> TRUE,
               bufferCreated |-> TRUE, lines |-> getBuffer(stringBuffer),
               depth |-> stringBuffer.indentLevel, policy |-> p ])

\* The whole call: what it returns or throws, what it created on the way and
\* the policy object as the call leaves it.
convert(p, format, options) ==
    LET converter == Lookup(format)
    IN  IF converter = Undefined
        THEN Thrown("Error", "Unsupported format: " \o format, FALSE, FALSE, p)
        ELSE IF converter = "method"
        THEN Thrown("TypeError", "converters[format] is not a constructor", FALSE, FALSE, p)
        ELSE IF converter = "Object"
        THEN Thrown("TypeError", "converter.convert is not a function", TRUE, TRUE, p)
        ELSE LET merged == MergeOptions(options)
                 stringBuffer == StringBuffer(merged.indentBy, merged.lineSeparator)
             IN  IF converter = "tf"
                 THEN Returned(TerraformConverter_convert(p, stringBuffer), p)
                 ELSE IF converter = "cf"
                 THEN Returned(CloudFormationConverter_convert(p, stringBuffer), p)
                 ELSE IF converter = "cdk-py"
                 THEN Returned(CdkPythonConverter_convert(p, stringBuffer), p)
                 ELSE Let(CdkTypescriptConverter_convert(p, stringBuffer,
                              [variableName |-> merged.variableName]),
                          LAMBDA r : Returned(r.sb, r.policy))

(***************************************************************************)
(* Bounds and the inputs drawn within them                                 *)
(***************************************************************************)

MaxStmts == 2       \* statements of a policy
MaxVals  == 2       \* elements of an action or resource list
MaxConds == 3       \* Condition entries of a statement
MaxPrincipals == 3  \* principals of a statement
MaxLen   == 4       \* a call is made only while no condition value list is longer

\* All sequences over S of a length in lo..hi.
SeqsOf(S, lo, hi) == UNION { [1..n -> S] : n \in lo..hi }

\* The first n elements of seq.
Prefix(seq, n) == SubSeq(seq, 1, IF n < Len(seq) THEN n ELSE Len(seq))

\* {}: a statement with no element at all.
EmptyStatement ==
    [ sid |-> Undefined, effect |-> Undefined, action |-> Undefined, actions |-> << >>,
      resource |-> Undefined, resources |-> << >>, principal |-> Undefined,
      principals |-> << >>, wildcard |-> FALSE, conditions |-> << >> ]

Policy(version, statements) == [version |-> version, statements |-> statements]

Versions == {Undefined, "2012-10-17", "2008-10-17"}

ActionNames   == <<"s3:ListBucket", "s3:GetObject", "s3:PutObject", "s3:DeleteObject">>
ResourceNames == <<"arn:aws:s3:::test1", "arn:aws:s3:::test2", "arn:aws:s3:::test3",
                   "arn:aws:s3:::test4">>

\* Statements that differ in sid and effect, and statements that carry an
\* action and a resource list of each kind and length (the empty list too).
PlainStatements ==
    { [EmptyStatement EXCEPT !.sid = sid, !.effect = effect] :
          sid \in {Undefined, "test1"}, effect \in {Undefined, "Allow", "Deny"} }
    \cup
    { [EmptyStatement EXCEPT !.action = kind[1], !.actions = Prefix(ActionNames, n),
                             !.resource = kind[2], !.resources = Prefix(ResourceNames, n)] :
          kind \in {<<"Action", "Resource">>, <<"NotAction", "NotResource">>},
          n \in 0..MaxVals }

\* The statements that policies of several statements are made of.
BasicStatements ==
    { EmptyStatement,
      [EmptyStatement EXCEPT !.sid = "test1", !.effect = "Deny"],
      [EmptyStatement EXCEPT !.effect = "Allow", !.action = "Action",
                             !.actions = Prefix(ActionNames, MaxVals)] }

PlainPolicies ==
    { Policy(v, <<s>>) : v \in Versions, s \in PlainStatements }
    \cup
    { Policy(v, ss) : v \in Versions, ss \in SeqsOf(BasicStatements, 0, MaxStmts) }

\* Statements with Condition entries, among them entries that share an
\* operator and a key, with one value or several, the empty string included.
ConditionValueLists ==
    { <<"">>, <<"public-read">>, <<"public-read-write">>,
      <<"public-read", "public-read-write">>, <<"", "public-read">> }

Conditions ==
    { [op |-> "StringEquals", key |-> "s3:x-amz-acl", values |-> values] :
          values \in ConditionValueLists }
    \cup
    { [op |-> "StringLike", key |-> "s3:x-amz-acl", values |-> <<"private">>],
      [op |-> "StringEquals", key |-> "s3:prefix", values |-> <<"home/">>] }

ConditionPolicies ==
    { Policy(Undefined, <<[EmptyStatement EXCEPT !.conditions = cs]>>) :
          cs \in SeqsOf(Conditions, 0, MaxConds) }

\* Statements with principals: the universal wildcard (the policy model then
\* lists the one principal AWS "*") and lists of any interleaving of types.
PrincipalTypes  == {"AWS", "Service", "CanonicalUser"}
PrincipalValues == {"p1", "p2"}
Principals == { [type |-> t, value |-> v] : t \in PrincipalTypes, v \in PrincipalValues }

PrincipalStatements ==
    { [EmptyStatement EXCEPT !.principal = kind, !.principals = ps] :
          kind \in {"Principal", "NotPrincipal"},
          ps \in SeqsOf(Principals, 0, MaxPrincipals) }
    \cup
    { [EmptyStatement EXCEPT !.principal = kind, !.wildcard = TRUE,
                             !.principals = <<[type |-> "AWS", value |-> "*"]>>] :
          kind \in {"Principal", "NotPrincipal"} }

PrincipalPolicies == { Policy(Undefined, <<s>>) : s \in PrincipalStatements }

\* Principal lists for the constructor mapping of the CDK renderers: one
\* principal of each type tag, a type tag the renderers do not know, and the
\* AWS principal "*" as a member of a list.
MaxCtorPrincipals == 2

CtorPrincipals ==
    { [type |-> t, value |-> "p1"] :
          t \in {"AWS", "Service", "Federated", "CanonicalUser", "Other"} }
    \cup { [type |-> "AWS", value |-> "*"] }

CtorPolicies ==
    { Policy(Undefined, <<[EmptyStatement EXCEPT !.principal = kind, !.principals = ps]>>) :
          kind \in {"Principal", "NotPrincipal"},
          ps \in SeqsOf(CtorPrincipals, 1, MaxCtorPrincipals) }

\* Policies for the bracketed lists of the Terraform renderer: every list
\* kind on its own, and one statement that carries all of them at once.
CombinedListStatements ==
    { [EmptyStatement EXCEPT !.action = kind[1], !.actions = Prefix(ActionNames, n),
                             !.resource = kind[2], !.resources = Prefix(ResourceNames, m),
                             !.principal = kind[3], !.principals = ps,
                             !.conditions = cs] :
          kind \in {<<"Action", "Resource", "Principal">>,
                    <<"NotAction", "NotResource", "NotPrincipal">>},
          n \in 1..MaxVals, m \in 1..MaxVals,
          ps \in SeqsOf(Principals, 1, 2), cs \in SeqsOf(Conditions, 1, 1) }

ListPolicies ==
    PlainPolicies \cup ConditionPolicies \cup PrincipalPolicies
    \cup { Policy(Undefined, <<s>>) : s \in CombinedListStatements }

\* Policy objects given by their raw document, for the renderer that walks
\* the raw document: values of every JSON type, empty containers, containers
\* in containers, and keys that are plain, that need quotes, that are empty
\* and that start with a dash and a space.
MaxProps == 2   \* properties of an array element, elements of an array

Scalars == {JString("Allow"), JNumber("1"), JBoolean("true"), JNull}

RawKeys == {"Effect", "aws:x", "", "- k"}

RawValues ==
    Scalars
    \cup {JArray(<< >>), JObject(<< >>), JArray(<<JString("a"), JNumber("2")>>),
          JObject(<<[name |-> "AWS", val |-> JString("a")]>>)}

RawProps == { [name |-> k, val |-> v] : k \in RawKeys, v \in RawValues }

\* An object holds a name once.
RawObjects ==
    { JObject(ps) : ps \in { qs \in SeqsOf(RawProps, 0, MaxProps) :
                                \A i, j \in DOMAIN qs : i # j => qs[i].name # qs[j].name } }

\* Array elements with containers two and three levels down.
DeepObjects ==
    { JObject(<< >>),
      JObject(<<[name |-> "Sid", val |-> JString("")],
                [name |-> "Principal",
                 val |-> JObject(<<[name |-> "AWS",
                                    val |-> JArray(<<JString("a"), JBoolean("false"),
                                                     JNull>>)]>>)]>>),
      JObject(<<[name |-> "Condition",
                 val |-> JObject(<<[name |-> "StringLike",
                                    val |-> JObject(<<[name |-> "s3:prefix",
                                                       val |-> JString("home/")]>>)]>>)],
                [name |-> "Effect", val |-> JString("Deny")]>>) }

RawDocuments ==
    { JObject(<<[name |-> "Statement", val |-> JArray(<<o>>)]>>) : o \in RawObjects }
    \cup
    { JObject(<<[name |-> "Version", val |-> JString("2012-10-17")],
                [name |-> "Statement", val |-> JArray(os)]>>) :
          os \in SeqsOf(DeepObjects, 0, MaxProps) }

RawPolicy(json) == [version |-> Undefined, statements |-> << >>, raw |-> json]

\* Options that name an indent unit, or none.
UnitOptions ==
    {NoOptions}
    \cup { [has |-> {"indentBy"}, indentBy |-> unit, lineSeparator |-> Undefined,
            variableName |-> Undefined] : unit \in {"    ", "\t"} }

\* The format identifiers a caller passes: the registered ones, two names
\* every object inherits and a name no object has.
Formats == Registered \cup {"constructor", "toString", "xml"}

CustomOptions ==
    [has |-> OptionNames, indentBy |-> "    ", lineSeparator |-> "\r\n",
     variableName |-> "my_policy"]

OptionsSet == {NoOptions, CustomOptions}

\* Options objects with indentBy and lineSeparator each left out, passed as
\* undefined or supplied, in every combination.
OptionCases ==
    { [has |-> (IF i = "absent" THEN {} ELSE {"indentBy"})
               \cup (IF l = "absent" THEN {} ELSE {"lineSeparator"}),
       indentBy |-> IF i = "absent" THEN Undefined ELSE i,
       lineSeparator |-> IF l = "absent" THEN Undefined ELSE l,
       variableName |-> Undefined] :
          i \in {"absent", Undefined, "\t", "    "},
          l \in {"absent", Undefined, "\r\n"} }

(***************************************************************************)
(* The state machine: a caller holding one policy object and calling       *)
(* convert() on it any number of times.                                    *)
(***************************************************************************)

\* A StringBuffer whose withIndent callbacks note the buffer they are given:
\* `entered` holds the depth and the lines at each entry of a callback, `left`
\* the depth at each return.
Watched(sb) ==
    [ buffer |-> sb.buffer, indentLevel |-> sb.indentLevel, indentBy |-> sb.indentBy,
      lineSeparator |-> sb.lineSeparator, entered |-> << >>, left |-> << >>,
      thrown |-> FALSE ]

NoOp ==
    [name |-> Undefined, depth |-> 0, lines |-> << >>, text |-> Undefined,
     body |-> << >>, returned |-> Undefined]

\* Nothing called yet: neither convert on the policy p nor a method of the
\* buffer sb.
Idle(p, sb) ==
    /\ policy = p
    /\ call = [made |-> FALSE, format |-> Undefined, options |-> NoOptions, policy |-> p]
    /\ result = [status |-> "none", error |-> [name |-> Undefined, message |-> Undefined],
                 text |-> Undefined]
    /\ trace = [instantiated |-> FALSE, bufferCreated |-> FALSE, lines |-> << >>,
                depth |-> 0]
    /\ lineBuffer = sb
    /\ bufferCall = NoOp

NotCalled(p) == Idle(p, Watched(StringBuffer(Undefined, Undefined)))

Init == \E p \in PlainPolicies : NotCalled(p)

InitConditions == \E p \in ConditionPolicies : NotCalled(p)

InitPrincipals == \E p \in PrincipalPolicies : NotCalled(p)

\* No condition value list has outgrown MaxLen.
WithinBounds(p) ==
    \A i \in 1..Len(p.statements) :
        \A j \in 1..Len(p.statements[i].conditions) :
            Len(p.statements[i].conditions[j].values) <= MaxLen

Convert(format, options) ==
    /\ WithinBounds(policy)
    /\ \E r \in {convert(policy, format, options)} :
           /\ call' = [made |-> TRUE, format |-> format, options |-> options,
                       policy |-> policy]
           /\ result' = [status |-> r.status, error |-> r.error, text |-> r.text]
           /\ trace' = [instantiated |-> r.instantiated,
                        bufferCreated |-> r.bufferCreated, lines |-> r.lines,
                        depth |-> r.depth]
           /\ policy' = r.policy
    /\ UNCHANGED <<lineBuffer, bufferCall>>

Next == \E format \in Formats, options \in OptionsSet : Convert(format, options)

\* Calls in the registered formats with no options argument.
NextRegistered == \E format \in Registered : Convert(format, NoOptions)

InitCtor == \E p \in CtorPolicies : NotCalled(p)

\* Calls of the two CDK renderers with no options argument.
NextCdk == \E format \in {"cdk-ts", "cdk-py"} : Convert(format, NoOptions)

InitLists == \E p \in ListPolicies : NotCalled(p)

\* Calls of the Terraform renderer with no options argument.
NextTf == Convert("tf", NoOptions)

\* Calls in the registered formats with each options object of OptionCases.
NextOptions == \E format \in Registered, options \in OptionCases : Convert(format, options)

(***************************************************************************)
(* A caller driving a StringBuffer directly: indent, unindent, pushLine    *)
(* and withIndent with a callback that is a short list of calls on the     *)
(* buffer it is given.                                                     *)
(***************************************************************************)

MaxDepth == 3   \* indent and withIndent are called only below this depth
MaxLines == 2   \* no call is made that takes the buffer beyond this many lines
MaxBody  == 2   \* calls a callback makes

\* What a callback calls on its buffer; its withIndent passes a callback that
\* pushes one line.  A callback of ThrowingBodies also throws, itself
\* ("throw") or in the callback it passes to withIndent, after that callback's
\* line ("withIndentThrow").
Instructions == {"pushLine", "indent", "unindent", "withIndent"}

Bodies == SeqsOf(Instructions, 0, MaxBody)

Step(sb, instruction) ==
    IF instruction = "pushLine" THEN pushLine(sb, "x")
    ELSE IF instruction = "indent" THEN indent(sb)
    ELSE IF instruction = "unindent" THEN unindent(sb)
    ELSE IF instruction = "throw" THEN Raise(sb)
    ELSE IF instruction = "withIndentThrow"
    THEN withIndent(sb, LAMBDA b : Raise(pushLine(b, "y")))
    ELSE withIndent(sb, LAMBDA b : pushLine(b, "y"))

\* The callback's calls, one after the other.
RECURSIVE Run(_, _)
Run(sb, body) ==
    IF body = << >> THEN sb ELSE Run(Let(sb, LAMBDA b : Step(b, Head(body))), Tail(body))

\* The callback notes the buffer it is given, makes its calls and notes the
\* depth it returns at.
Callback(sb, body) ==
    Let(Run([sb EXCEPT !.entered =
                 Append(@, [depth |-> sb.indentLevel, lines |-> sb.buffer])], body),
        LAMBDA b : IF Raised(b) THEN b ELSE [b EXCEPT !.left = Append(@, b.indentLevel)])

\* The lines the callback pushes.
Pushes(body) ==
    Cardinality({ i \in DOMAIN body :
                      body[i] \in {"pushLine", "withIndent", "withIndentThrow"} })

\* The buffer with the notes of the last callback cleared.
Unwatched(sb) == [sb EXCEPT !.entered = << >>, !.left = << >>, !.thrown = FALSE]

\* The call is noted with its argument (a text or a callback body) and with
\* what it returned.
Called(name, text, body, returned) ==
    /\ bufferCall' = [name |-> name, depth |-> lineBuffer.indentLevel,
                      lines |-> lineBuffer.buffer, text |-> text, body |-> body,
                      returned |-> returned]
    /\ UNCHANGED <<policy, call, result, trace>>

Indent ==
    /\ lineBuffer.indentLevel < MaxDepth
    /\ lineBuffer' = indent(Unwatched(lineBuffer))
    /\ Called("indent", Undefined, << >>, Undefined)

Unindent ==
    /\ lineBuffer' = unindent(Unwatched(lineBuffer))
    /\ Called("unindent", Undefined, << >>, Undefined)

PushLine(text) ==
    /\ Len(lineBuffer.buffer) < MaxLines
    /\ lineBuffer' = pushLine(Unwatched(lineBuffer), text)
    /\ Called("pushLine", text, << >>, Undefined)

WithIndent_Restoring(body) ==
    /\ lineBuffer.indentLevel < MaxDepth
    /\ Len(lineBuffer.buffer) + Pushes(body) <= MaxLines
    /\ lineBuffer' =
           [withIndent(Unwatched(lineBuffer), LAMBDA b : Callback(b, body))
                EXCEPT !.indentLevel = lineBuffer.indentLevel]
    /\ Called("withIndent", Undefined, body, Undefined)

WithIndent(body) ==
    /\ lineBuffer.indentLevel < MaxDepth
    /\ Len(lineBuffer.buffer) + Pushes(body) <= MaxLines
    /\ lineBuffer' = withIndent(Unwatched(lineBuffer), LAMBDA b : Callback(b, body))
    /\ Called("withIndent", Undefined, body, Undefined)

CallToString ==
    /\ lineBuffer' = Unwatched(lineBuffer)
    /\ Called("toString", Undefined, << >>, toString(lineBuffer))

InitBuffer == NotCalled(Policy(Undefined, << >>))

NextBuffer ==
    \/ Indent
    \/ Unindent
    \/ \E text \in {"x", ""} : PushLine(text)
    \/ \E body \in Bodies : WithIndent(body)

\* new StringBuffer(), new StringBuffer('\t'), new StringBuffer(undefined, '\r\n'), ...
InitText ==
    \E indentBy \in {Undefined, "\t"}, lineSeparator \in {Undefined, "\r\n"} :
        Idle(Policy(Undefined, << >>), Watched(StringBuffer(indentBy, lineSeparator)))

\* Callbacks of at most one call.
ShortBodies == SeqsOf(Instructions, 0, 1)

\* The calls on a buffer, toString among them.
NextText ==
    \/ Indent
    \/ Unindent
    \/ \E text \in {"x", ""} : PushLine(text)
    \/ \E body \in ShortBodies : WithIndent(body)
    \/ CallToString

InitYaml == \E json \in RawDocuments : NotCalled(RawPolicy(json))

\* Calls of the CloudFormation renderer with an indent unit or none.
NextCf == \E options \in UnitOptions : Convert("cf", options)

\* Any policy of plain statements, any format identifier, any options.
Spec == Init /\ [][Next]_vars

\* Policies with Condition entries, converted to each registered format.
SpecConditions == InitConditions /\ [][NextRegistered]_vars

\* Policies with principals, converted to each registered format.
SpecPrincipals == InitPrincipals /\ [][NextRegistered]_vars

(***************************************************************************)
(* Reading a call's outcome                                                *)
(***************************************************************************)

\* The last call returned text.
Returned_(format) == call.made /\ call.format = format /\ result.status = "ok"

\* The indent unit the caller asked for, two spaces when it asked for none.
IndentUnit ==
    IF "indentBy" \in call.options.has /\ call.options.indentBy # Undefined
    THEN call.options.indentBy ELSE "  "

\* The line that holds `text` at depth k.
At(k, text) == repeat(IndentUnit, k) \o text

\* How many of the lines satisfy P.
Count(lines, P(_)) == Cardinality({ i \in 1..Len(lines) : P(lines[i]) })

(***************************************************************************)
(* C1.  For every format identifier outside {tf, cf, cdk-ts, cdk-py},      *)
(* also one that names a property every object inherits ('constructor',    *)
(* 'toString'), convert fails with 'Unsupported format: <identifier>'      *)
(* before a renderer is instantiated, a buffer is created or a line is     *)
(* rendered, and returns no text.                                          *)
(***************************************************************************)
C1_UnsupportedFormatFailsFast ==
    (call.made /\ call.format \notin Registered) =>
        /\ result.status = "error"
        /\ result.error.name = "Error"
        /\ result.error.message = "Unsupported format: " \o call.format
        /\ result.text = Undefined
        /\ ~trace.instantiated
        /\ ~trace.bufferCreated
        /\ trace.lines = << >>

(***************************************************************************)
(* C2.  Two calls with equal arguments return equal text whatever calls    *)
(* happened before: here, a call that repeats the arguments of the call    *)
(* before it (the same policy object, format and options) has the same     *)
(* outcome.                                                                *)
(***************************************************************************)
C2_EqualCallsEqualText ==
    [][ (call.made /\ call'.format = call.format /\ call'.options = call.options)
            => result' = result ]_vars

(***************************************************************************)
(* C3.  No renderer changes the policy it is given: after convert returns, *)
(* in any format, every list of every statement and every Condition's      *)
(* value list equal what they were before the call.                        *)
(***************************************************************************)
C3_PolicyUnchanged == call.made => policy = call.policy

(***************************************************************************)
(* Reading the conditions field of a CDK rendering back from its lines     *)
(***************************************************************************)

\* The Condition entries of the policy's only statement, as passed to the call.
EntriesOfCall == call.policy.statements[1].conditions

\* The values of all entries with this operator and key, in entry order.
RECURSIVE ValuesInEntryOrder(_, _, _)
ValuesInEntryOrder(entries, op, key) ==
    IF entries = << >> THEN << >>
    ELSE (IF Head(entries).op = op /\ Head(entries).key = key
          THEN Head(entries).values ELSE << >>)
         \o ValuesInEntryOrder(Tail(entries), op, key)

\* The operator line of the conditions field: the TypeScript renderer writes
\* the operator bare, the Python renderer quotes it.
OperatorLine(op) ==
    At(4, (IF call.format = "cdk-py" THEN Q(op) ELSE op) \o ": {")

\* The (operator, key, values) the lines show, in the order they show them:
\* an operator line opens an operator, a key line holds one value or opens a
\* list, an element line adds a value to the list opened last.
RECURSIVE ShownConditions(_, _, _)
ShownConditions(lines, op, shown) ==
    IF lines = << >> THEN shown
    ELSE LET line   == Head(lines)
             ops    == { e.op : e \in { EntriesOfCall[i] : i \in DOMAIN EntriesOfCall } }
             keys   == { e.key : e \in { EntriesOfCall[i] : i \in DOMAIN EntriesOfCall } }
             values == UNION { { e.values[j] : j \in DOMAIN e.values } :
                                 e \in { EntriesOfCall[i] : i \in DOMAIN EntriesOfCall } }
             n      == Len(shown)
         IN  IF \E o \in ops : line = OperatorLine(o)
             THEN ShownConditions(Tail(lines),
                      CHOOSE o \in ops : line = OperatorLine(o), shown)
             ELSE IF \E k \in keys, v \in values : line = At(5, Q(k) \o ": " \o Q(v) \o ",")
             THEN LET kv == CHOOSE kv \in keys \X values :
                                line = At(5, Q(kv[1]) \o ": " \o Q(kv[2]) \o ",")
                  IN  ShownConditions(Tail(lines), op,
                          Append(shown, [op |-> op, key |-> kv[1], values |-> <<kv[2]>>]))
             ELSE IF \E k \in keys : line = At(5, Q(k) \o ": [")
             THEN ShownConditions(Tail(lines), op,
                      Append(shown, [op |-> op,
                                     key |-> CHOOSE k \in keys : line = At(5, Q(k) \o ": ["),
                                     values |-> << >>]))
             ELSE IF n > 0 /\ \E v \in values : line = At(6, Q(v) \o ",")
             THEN ShownConditions(Tail(lines), op,
                      [shown EXCEPT ![n].values =
                          Append(@, CHOOSE v \in values : line = At(6, Q(v) \o ","))])
             ELSE ShownConditions(Tail(lines), op, shown)

(***************************************************************************)
(* C4.  The TypeScript and Python CDK renderers merge the Condition        *)
(* entries of a statement: every (operator, key) pair of the entries is    *)
(* shown exactly once in the conditions field, and the values shown for it *)
(* are the values of all entries with that operator and key, concatenated  *)
(* in entry order.                                                         *)
(***************************************************************************)
C4_ConditionsMerged ==
    ((Returned_("cdk-ts") \/ Returned_("cdk-py")) /\ Len(call.policy.statements) = 1) =>
        LET shown == ShownConditions(trace.lines, Undefined, << >>)
        IN  /\ \A i \in DOMAIN EntriesOfCall :
                   Cardinality({ j \in DOMAIN shown :
                       /\ shown[j].op = EntriesOfCall[i].op
                       /\ shown[j].key = EntriesOfCall[i].key }) = 1
            /\ \A j \in DOMAIN shown :
                   shown[j].values =
                       ValuesInEntryOrder(EntriesOfCall, shown[j].op, shown[j].key)

(***************************************************************************)
(* Reading the principals of a rendering back from its lines               *)
(***************************************************************************)

StartsWith(line, prefix) ==
    Len(line) >= Len(prefix) /\ SubSeq(line, 1, Len(prefix)) = prefix

\* The policy's only statement, as passed to the call.
StatementOfCall == call.policy.statements[1]

\* The last call rendered a policy of one statement that has principals (or
\* not-principals) in this format.
RenderedPrincipals(format) ==
    /\ Returned_(format)
    /\ Len(call.policy.statements) = 1
    /\ StatementOfCall.principal # Undefined

\* The field that holds the principals, as each renderer names it.
PrincipalsField ==
    IF StatementOfCall.principal = "Principal"
    THEN (IF call.format = "cdk-ts" THEN "principals: ["
          ELSE IF call.format = "cdk-py" THEN "principals=["
          ELSE IF call.format = "tf" THEN "principals {"
          ELSE "Principal:")
    ELSE (IF call.format = "cdk-ts" THEN "notPrincipals: ["
          ELSE IF call.format = "cdk-py" THEN "not_principals=["
          ELSE IF call.format = "tf" THEN "not_principals {"
          ELSE "NotPrincipal:")

\* Some line shows a principal of its own or a list of principals: a
\* Terraform block with a type tag or an identifiers list, a CDK list opened
\* on a line of its own or a constructor call on a line of its own, a
\* CloudFormation mapping from type tags.
PerPrincipalOutput ==
    \E i \in DOMAIN trace.lines :
        LET line == trace.lines[i]
        IN  \/ call.format = "tf"
               /\ \/ line = At(3, "identifiers = [")
                  \/ \E t \in PrincipalTypes : line = At(3, "type        = " \o Q(t))
                  \/ StartsWith(line, At(4, "\""))
            \/ call.format = "cdk-ts"
               /\ (line = At(3, PrincipalsField) \/ StartsWith(line, At(4, "new iam.")))
            \/ call.format = "cdk-py"
               /\ (line = At(3, PrincipalsField) \/ StartsWith(line, At(4, "iam.")))
            \/ call.format = "cf"
               /\ \/ line \in {At(2, "- " \o PrincipalsField), At(3, PrincipalsField)}
                  \/ \E t \in PrincipalTypes : StartsWith(line, At(3, t \o ":"))

FirstSeenTypes(principals) ==
    LET first == { i \in DOMAIN principals :
                       \A j \in 1..(i - 1) : principals[j].type # principals[i].type }
        f[n \in 0..Len(principals)] ==
            IF n = 0 THEN << >>
            ELSE IF n \in first THEN Append(f[n - 1], principals[n].type) ELSE f[n - 1]
    IN  f[Len(principals)]

\* The values of the principals of one type, in list order.
ValuesOfType(principals, type) ==
    LET ofType == SelectSeq(principals, LAMBDA p : p.type = type)
    IN  [i \in DOMAIN ofType |-> ofType[i].value]

\* The blocks a Terraform rendering shows, in order: a type line opens a
\* block, an identifier line (with or without a comma) adds to it.
RECURSIVE ShownBlocks(_, _)
ShownBlocks(lines, shown) ==
    IF lines = << >> THEN shown
    ELSE LET line == Head(lines)
             n    == Len(shown)
             ids  == PrincipalValues \cup {"*"}
         IN  IF \E t \in PrincipalTypes : line = At(3, "type        = " \o Q(t))
             THEN ShownBlocks(Tail(lines),
                      Append(shown,
                          [type |-> CHOOSE t \in PrincipalTypes :
                                        line = At(3, "type        = " \o Q(t)),
                           identifiers |-> << >>]))
             ELSE IF n > 0 /\ \E v \in ids : line \in {At(4, Q(v)), At(4, Q(v) \o ",")}
             THEN ShownBlocks(Tail(lines),
                      [shown EXCEPT ![n].identifiers =
                          Append(@, CHOOSE v \in ids :
                                        line \in {At(4, Q(v)), At(4, Q(v) \o ",")})])
             ELSE ShownBlocks(Tail(lines), shown)

(***************************************************************************)
(* C6.  For a principal list without the wildcard flag, the Terraform      *)
(* renderer emits exactly one block per distinct type tag of the list, the *)
(* blocks in the order in which the type tags first occur, and in each     *)
(* block the identifiers of that type in the order of the list.            *)
(***************************************************************************)
C6_PrincipalsGroupedByType ==
    (RenderedPrincipals("tf") /\ ~StatementOfCall.wildcard) =>
        LET principals == StatementOfCall.principals
            types      == FirstSeenTypes(principals)
        IN  /\ Count(trace.lines, LAMBDA l : l = At(2, PrincipalsField)) = Len(types)
            /\ ShownBlocks(trace.lines, << >>) =
                   [i \in DOMAIN types |->
                       [type |-> types[i],
                        identifiers |-> ValuesOfType(principals, types[i])]]

C6_Witness ==
    /\ RenderedPrincipals("tf")
    /\ ~StatementOfCall.wildcard
    /\ Len(StatementOfCall.principals) = 3
    /\ StatementOfCall.principals[1].type = StatementOfCall.principals[3].type
    /\ StatementOfCall.principals[1].type # StatementOfCall.principals[2].type
    /\ Len(ShownBlocks(trace.lines, << >>)) = 2

(***************************************************************************)
(* Reading the statements of a rendering back from its lines               *)
(***************************************************************************)

StatementsOfCall == call.policy.statements

\* The line that opens a statement's construct, and the lines that close it.
StatementOpen ==
    IF call.format = "tf" THEN At(1, "statement {")
    ELSE IF call.format = "cdk-ts" THEN At(2, "new iam.PolicyStatement({")
    ELSE At(2, "iam.PolicyStatement(")

StatementCloses ==
    IF call.format = "tf" THEN {At(1, "}")}
    ELSE IF call.format = "cdk-ts" THEN {At(2, "})"), At(2, "}),")}
    ELSE {At(2, "),")}

\* The indexes of the lines that satisfy P, ascending.
IndexesOf(lines, P(_)) ==
    LET f[n \in 0..Len(lines)] ==
            IF n = 0 THEN << >>
            ELSE IF P(lines[n]) THEN Append(f[n - 1], n) ELSE f[n - 1]
    IN  f[Len(lines)]

OpenIndexes == IndexesOf(trace.lines, LAMBDA l : l = StatementOpen)

\* The lines between the opening line of the i-th statement construct and the
\* line that closes it.
StatementLines(i) ==
    LET o == OpenIndexes[i]
        c == CHOOSE c \in (o + 1)..(Len(trace.lines) + 1) :
                 /\ c <= Len(trace.lines) => trace.lines[c] \in StatementCloses
                 /\ \A k \in (o + 1)..(c - 1) : trace.lines[k] \notin StatementCloses
    IN  SubSeq(trace.lines, o + 1, c - 1)

\* CloudFormation: the lines that start an element of the Statement list.
CfItemIndexes ==
    IndexesOf(trace.lines, LAMBDA l : l = At(2, "{}") \/ StartsWith(l, At(2, "- ")))

(***************************************************************************)
(* C7.  Terraform: a document whose version is '2012-10-17' produces no    *)
(* version line at all; a document with any other version produces exactly *)
(* one line `version = "<value>"`, directly after the opening line and     *)
(* before the first statement block.                                       *)
(***************************************************************************)
C7_VersionLine ==
    Returned_("tf") =>
        LET version      == call.policy.version
            versionLines == IndexesOf(trace.lines,
                                LAMBDA l : StartsWith(l, At(1, "version")))
        IN  /\ version = "2012-10-17" => versionLines = << >>
            /\ version \notin {Undefined, "2012-10-17"} =>
                   /\ versionLines = <<2>>
                   /\ trace.lines[1] = "data \"aws_iam_policy_document\" \"policy\" {"
                   /\ trace.lines[2] = At(1, "version = " \o Q(version))
                   /\ \A i \in DOMAIN OpenIndexes : OpenIndexes[i] > 2

C7_Witness ==
    /\ Returned_("tf")
    /\ call.policy.version = "2008-10-17"
    /\ Len(StatementsOfCall) = 2
    /\ OpenIndexes[1] = 3

\* The statement's action, resource, principal and condition lists are empty.
EmptyLists(statement) ==
    /\ statement.actions = << >>
    /\ statement.resources = << >>
    /\ statement.principals = << >>
    /\ ~statement.wildcard
    /\ statement.conditions = << >>

\* The i-th statement is rendered as its wrapping construct and nothing else.
OnlyWrapper(i) ==
    IF call.format = "cf"
    THEN /\ Len(CfItemIndexes) = Len(StatementsOfCall)
         /\ trace.lines[CfItemIndexes[i]] = At(2, "{}")
    ELSE /\ Len(OpenIndexes) = Len(StatementsOfCall)
         /\ StatementLines(i) = << >>
         /\ OpenIndexes[i] < Len(trace.lines)
         /\ trace.lines[OpenIndexes[i] + 1] \in StatementCloses

\* The rule of the empty statement, for the statements that IsEmpty holds of.
EmptyStatementRule(IsEmpty(_)) ==
    \A format \in Registered :
        Returned_(format) =>
            /\ \A i \in DOMAIN StatementsOfCall :
                   IsEmpty(StatementsOfCall[i]) => OnlyWrapper(i)
            /\ ( /\ format = "tf"
                 /\ call.policy.version \in {Undefined, "2012-10-17"}
                 /\ \A i \in DOMAIN StatementsOfCall : IsEmpty(StatementsOfCall[i]) )
               => Len(trace.lines) = 2 + 2 * Len(StatementsOfCall)

(***************************************************************************)
(* C8, as stated.  For every statement with an empty action list, empty    *)
(* resource list, empty principal list and empty condition list, every     *)
(* renderer emits only the statement's wrapping construct, with no inner   *)
(* field lines; in Terraform n such statements without a version yield     *)
(* 2 + 2n lines (4 lines for one).                                         *)
(***************************************************************************)
C8_EmptyLists == EmptyStatementRule(EmptyLists)

(***************************************************************************)
(* C8, amended.  For every statement that has no sid, no effect and no     *)
(* action, resource, principal or condition element (the statement {}),    *)
(* every renderer emits only the statement's wrapping construct, with no   *)
(* inner field lines; in Terraform n such statements without a version     *)
(* yield 2 + 2n lines (4 lines for one).                                   *)
(***************************************************************************)
C8_EmptyStatement == EmptyStatementRule(LAMBDA statement : statement = EmptyStatement)

C8_Witness ==
    /\ Returned_("tf")
    /\ call.policy.version = Undefined
    /\ StatementsOfCall = <<EmptyStatement, EmptyStatement>>
    /\ Len(trace.lines) = 6

(***************************************************************************)
(* C9.  The first line of the TypeScript and of the Python CDK rendering   *)
(* assigns the document to the variable name the options supply, and to    *)
(* the renderer's default (policyDocument, policy_document) when they      *)
(* supply none.                                                            *)
(***************************************************************************)
C9_VariableName ==
    LET supplied == "variableName" \in call.options.has /\ Truthy(call.options.variableName)
    IN  /\ Returned_("cdk-ts") =>
               trace.lines[1] =
                   "const "
                   \o (IF supplied THEN call.options.variableName ELSE "policyDocument")
                   \o " = new iam.PolicyDocument({"
        /\ Returned_("cdk-py") =>
               trace.lines[1] =
                   (IF supplied THEN call.options.variableName ELSE "policy_document")
                   \o " = iam.PolicyDocument("

\* The effect lines among the lines of the i-th statement construct.
EffectLines(i) ==
    SelectSeq(StatementLines(i),
        LAMBDA l : StartsWith(l, At(3, IF call.format = "cdk-ts" THEN "effect:" ELSE "effect=")))

\* The statement construct shows the effect with the constant of its name.
ShowsEffect(i, constant) ==
    /\ Len(EffectLines(i)) = 1
    /\ EffectLines(i)[1] \in
           IF call.format = "cdk-ts"
           THEN {At(3, "effect: iam.Effect." \o constant \o ",")}
           ELSE {At(3, "effect=Effect." \o constant \o ","),
                 At(3, "effect=iam.Effect." \o constant \o ",")}

EffectConstant(statement) == IF statement.effect = "Deny" THEN "DENY" ELSE "ALLOW"

(***************************************************************************)
(* C10, as stated.  The TypeScript and the Python CDK renderer both emit   *)
(* an effect field with the constant of the effect (ALLOW or DENY)         *)
(* whenever the statement has an explicit effect, and no effect field when *)
(* it has none.                                                            *)
(***************************************************************************)
C10_EffectWheneverExplicit ==
    \A format \in {"cdk-ts", "cdk-py"} :
        Returned_(format) =>
            /\ Len(OpenIndexes) = Len(StatementsOfCall)
            /\ \A i \in DOMAIN StatementsOfCall :
                   IF StatementsOfCall[i].effect # Undefined
                   THEN ShowsEffect(i, EffectConstant(StatementsOfCall[i]))
                   ELSE EffectLines(i) = << >>

(***************************************************************************)
(* C10, amended.  The TypeScript CDK renderer emits an effect field with   *)
(* the constant of the effect (ALLOW or DENY) whenever the statement has   *)
(* an explicit effect; the Python CDK renderer emits an effect field, with *)
(* the constant DENY, only when the explicit effect is Deny, and none for  *)
(* an explicit Allow; neither emits an effect field when the statement has *)
(* no effect.                                                              *)
(***************************************************************************)
C10_EffectPerRenderer ==
    \A format \in {"cdk-ts", "cdk-py"} :
        Returned_(format) =>
            /\ Len(OpenIndexes) = Len(StatementsOfCall)
            /\ \A i \in DOMAIN StatementsOfCall :
                   IF \/ format = "cdk-ts" /\ StatementsOfCall[i].effect # Undefined
                      \/ format = "cdk-py" /\ StatementsOfCall[i].effect = "Deny"
                   THEN ShowsEffect(i, EffectConstant(StatementsOfCall[i]))
                   ELSE EffectLines(i) = << >>

C10_Witness ==
    /\ Returned_("cdk-py")
    /\ Len(StatementsOfCall) = 2
    /\ StatementsOfCall[1].effect = "Allow"
    /\ StatementsOfCall[2].effect = "Deny"
    /\ EffectLines(1) = << >>
    /\ Len(EffectLines(2)) = 1

\* Terraform: the effect lines among the lines of the i-th statement block.
TfEffectLines(i) ==
    SelectSeq(StatementLines(i), LAMBDA l : StartsWith(l, At(2, "effect")))

(***************************************************************************)
(* C11.  The effect line follows a rule per renderer.  Terraform emits     *)
(* `effect = "Deny"` exactly when the statement is a Deny and never prints *)
(* an Allow; the Python CDK renderer emits an effect line exactly when the *)
(* statement has the explicit effect Deny; the TypeScript CDK renderer     *)
(* emits an effect line exactly when the statement has an explicit effect, *)
(* with ALLOW for Allow and DENY for Deny; a statement without an effect   *)
(* has no effect line in any of the three.                                 *)
(***************************************************************************)
C11_EffectLineRule ==
    \A format \in {"tf", "cdk-ts", "cdk-py"} :
        Returned_(format) =>
            /\ Len(OpenIndexes) = Len(StatementsOfCall)
            /\ \A i \in DOMAIN StatementsOfCall :
                   LET effect == StatementsOfCall[i].effect
                   IN  /\ format = "tf" =>
                              TfEffectLines(i) =
                                  IF effect = "Deny"
                                  THEN <<At(2, "effect = \"Deny\"")>> ELSE << >>
                       /\ format = "cdk-py" =>
                              EffectLines(i) =
                                  IF effect = "Deny"
                                  THEN <<At(3, "effect=Effect.DENY,")>> ELSE << >>
                       /\ format = "cdk-ts" =>
                              EffectLines(i) =
                                  IF effect = "Deny"
                                  THEN <<At(3, "effect: iam.Effect.DENY,")>>
                                  ELSE IF effect = "Allow"
                                  THEN <<At(3, "effect: iam.Effect.ALLOW,")>>
                                  ELSE << >>

C11_Witness ==
    /\ Returned_("tf")
    /\ Len(StatementsOfCall) = 2
    /\ StatementsOfCall[1].effect = "Allow"
    /\ StatementsOfCall[2].effect = "Deny"
    /\ TfEffectLines(1) = << >>
    /\ Len(TfEffectLines(2)) = 1

\* Policies with principals of every type tag, converted by the CDK renderers.
SpecCtor == InitCtor /\ [][NextCdk]_vars

(***************************************************************************)
(* Reading the constructor calls of a CDK principals field                 *)
(***************************************************************************)

CtorPrefix == IF call.format = "cdk-ts" THEN "new iam." ELSE "iam."

\* The lines of the principals list, one per constructor call.
CtorLines == SelectSeq(trace.lines, LAMBDA l : StartsWith(l, At(4, CtorPrefix)))

CtorNames ==
    { "ArnPrincipal", "ServicePrincipal", "FederatedPrincipal", "CanonicalUserPrincipal",
      "AnyPrincipal", "AccountPrincipal", "StarPrincipal" }

\* The line is a call of this constructor, with the value or with no argument.
CallsCtor(line, name, value) ==
    line \in { At(4, CtorPrefix \o name \o "(" \o Q(value) \o "),"),
               At(4, CtorPrefix \o name \o "(),") }

\* The constructor the i-th line calls.
ShownCtor(i) ==
    CHOOSE name \in CtorNames :
        CallsCtor(CtorLines[i], name, StatementOfCall.principals[i].value)

\* The type tag whose constructor a type tag is to get.
CtorClass(type) ==
    IF type \in {"AWS", "Service", "Federated", "CanonicalUser"} THEN type ELSE "AWS"

(***************************************************************************)
(* C12, as stated.  In both CDK renderers every principal of a list        *)
(* without the wildcard flag is rendered as exactly one constructor call,  *)
(* in list order, and the type tag alone selects the constructor: AWS,     *)
(* Service, Federated and CanonicalUser get four different constructors    *)
(* and any other type tag gets the constructor of AWS.                     *)
(***************************************************************************)
C12_CtorByTypeAlone ==
    \A format \in {"cdk-ts", "cdk-py"} :
        (RenderedPrincipals(format) /\ ~StatementOfCall.wildcard) =>
            LET principals == StatementOfCall.principals
            IN  /\ Len(CtorLines) = Len(principals)
                /\ \A i \in DOMAIN principals :
                       \E name \in CtorNames :
                           CallsCtor(CtorLines[i], name, principals[i].value)
                /\ \A i, j \in DOMAIN principals :
                       (ShownCtor(i) = ShownCtor(j))
                           <=> (CtorClass(principals[i].type) = CtorClass(principals[j].type))

\* The constructor call each renderer writes for a principal.
CtorCallTs(p) ==
    "new iam."
    \o (CASE p.type = "Service"       -> "ServicePrincipal"
          [] p.type = "Federated"     -> "FederatedPrincipal"
          [] p.type = "CanonicalUser" -> "CanonicalUserPrincipal"
          [] OTHER                    -> "ArnPrincipal")
    \o "(" \o Q(p.value) \o "),"

CtorCallPy(p) ==
    IF p.type = "AWS" /\ p.value = "*" THEN "iam.AnyPrincipal(),"
    ELSE "iam."
         \o (CASE p.type = "Service"   -> "ServicePrincipal"
               [] p.type = "Federated" -> "FederatedPrincipal"
               [] OTHER                -> "ArnPrincipal")
         \o "(" \o Q(p.value) \o "),"

(***************************************************************************)
(* C12, amended.  In both CDK renderers every principal of a list without  *)
(* the wildcard flag is rendered as exactly one constructor call, in list  *)
(* order.  In the TypeScript renderer the type tag alone selects the       *)
(* constructor: AWS, Service, Federated and CanonicalUser get four         *)
(* different constructors and any other type tag gets the constructor of   *)
(* AWS.  In the Python renderer AWS, Service and Federated get three       *)
(* different constructors, CanonicalUser and any other type tag get the    *)
(* constructor of AWS, and an AWS principal with the value "*" is rendered *)
(* as AnyPrincipal() with no argument.                                     *)
(***************************************************************************)
C12_CtorPerRenderer ==
    \A format \in {"cdk-ts", "cdk-py"} :
        (RenderedPrincipals(format) /\ ~StatementOfCall.wildcard) =>
            LET principals == StatementOfCall.principals
            IN  CtorLines =
                    [i \in DOMAIN principals |->
                        At(4, IF format = "cdk-ts" THEN CtorCallTs(principals[i])
                              ELSE CtorCallPy(principals[i]))]

C12_Witness ==
    /\ RenderedPrincipals("cdk-py")
    /\ ~StatementOfCall.wildcard
    /\ Len(StatementOfCall.principals) = 2
    /\ StatementOfCall.principals[1].type = "CanonicalUser"
    /\ StatementOfCall.principals[2] = [type |-> "AWS", value |-> "*"]
    /\ Len(CtorLines) = 2

(***************************************************************************)
(* Reading the action and resource lists of a CDK rendering                *)
(***************************************************************************)

\* Some run of consecutive lines is `part`.
Contains(lines, part) ==
    \E k \in 0..(Len(lines) - Len(part)) : SubSeq(lines, k + 1, k + Len(part)) = part

\* The names of the list fields of a CDK statement, with the bracket that
\* opens them.
CdkActionFields ==
    IF call.format = "cdk-ts" THEN {"actions: [", "notActions: ["}
    ELSE {"actions=[", "not_actions=["}

CdkResourceFields ==
    IF call.format = "cdk-ts" THEN {"resources: [", "notResources: ["}
    ELSE {"resources=[", "not_resources=["}

CdkActionField(statement) ==
    IF call.format = "cdk-ts"
    THEN (IF statement.action = "NotAction" THEN "notActions: [" ELSE "actions: [")
    ELSE (IF statement.action = "NotAction" THEN "not_actions=[" ELSE "actions=[")

CdkResourceField(statement) ==
    IF call.format = "cdk-ts"
    THEN (IF statement.resource = "NotResource" THEN "notResources: [" ELSE "resources: [")
    ELSE (IF statement.resource = "NotResource" THEN "not_resources=[" ELSE "resources=[")

\* A list field: the opening line, one quoted element per line, each with a
\* comma (the last one only if lastComma), and the closing line.
CdkListField(field, values, lastComma) ==
    <<At(3, field)>>
    \o [k \in DOMAIN values |->
           At(4, Q(values[k]) \o (IF k < Len(values) \/ lastComma THEN "," ELSE ""))]
    \o <<At(3, "],")>>

\* The i-th statement construct holds the list as such a field, and no list
\* field of these names when the list is empty.
ShowsCdkList(i, fields, field, values, lastComma) ==
    IF values = << >>
    THEN \A k \in DOMAIN StatementLines(i) :
             StatementLines(i)[k] \notin { At(3, f) : f \in fields }
    ELSE /\ Contains(StatementLines(i), CdkListField(field, values, lastComma))
         /\ Len(SelectSeq(StatementLines(i),
                    LAMBDA l : l \in { At(3, f) : f \in fields })) = 1

(***************************************************************************)
(* C13, as stated.  In both CDK renderers every element of an action or    *)
(* not-action list and of a resource or not-resource list is on a line of  *)
(* its own, as a double-quoted string followed by a comma, the last        *)
(* element of the list too; an empty list produces no field at all.        *)
(***************************************************************************)
C13_CommaAfterEveryElement ==
    \A format \in {"cdk-ts", "cdk-py"} :
        Returned_(format) =>
            /\ Len(OpenIndexes) = Len(StatementsOfCall)
            /\ \A i \in DOMAIN StatementsOfCall :
                   LET statement == StatementsOfCall[i]
                   IN  /\ ShowsCdkList(i, CdkActionFields, CdkActionField(statement),
                              statement.actions, TRUE)
                       /\ ShowsCdkList(i, CdkResourceFields, CdkResourceField(statement),
                              statement.resources, TRUE)

(***************************************************************************)
(* C13, amended.  In both CDK renderers every element of an action or      *)
(* not-action list and of a resource or not-resource list is on a line of  *)
(* its own, as a double-quoted string followed by a comma, the last        *)
(* element of the list too, except that the TypeScript renderer writes the *)
(* last element of an action or not-action list without a comma; an empty  *)
(* list produces no field at all.                                          *)
(***************************************************************************)
C13_CommaPerRenderer ==
    \A format \in {"cdk-ts", "cdk-py"} :
        Returned_(format) =>
            /\ Len(OpenIndexes) = Len(StatementsOfCall)
            /\ \A i \in DOMAIN StatementsOfCall :
                   LET statement == StatementsOfCall[i]
                   IN  /\ ShowsCdkList(i, CdkActionFields, CdkActionField(statement),
                              statement.actions, format = "cdk-py")
                       /\ ShowsCdkList(i, CdkResourceFields, CdkResourceField(statement),
                              statement.resources, TRUE)

C13_Witness ==
    /\ Returned_("cdk-ts")
    /\ Len(StatementsOfCall) = 1
    /\ StatementsOfCall[1].action = "NotAction"
    /\ Len(StatementsOfCall[1].actions) = 2
    /\ Len(StatementsOfCall[1].resources) = 2
    /\ Contains(trace.lines, <<At(4, Q(StatementsOfCall[1].actions[2])), At(3, "],")>>)

\* The line that closes the i-th statement construct.
StatementCloseLine(i) == trace.lines[OpenIndexes[i] + Len(StatementLines(i)) + 1]

(***************************************************************************)
(* C14, as stated.  In both CDK renderers the statement constructs of the  *)
(* statements list are separated by commas, and the closing line of the    *)
(* last statement carries no comma, for every number n >= 1 of statements. *)
(***************************************************************************)
C14_NoCommaAfterLastStatement ==
    \A format \in {"cdk-ts", "cdk-py"} :
        (Returned_(format) /\ Len(StatementsOfCall) >= 1) =>
            /\ Len(OpenIndexes) = Len(StatementsOfCall)
            /\ \A i \in DOMAIN StatementsOfCall :
                   StatementCloseLine(i) =
                       At(2, (IF format = "cdk-ts" THEN "})" ELSE ")")
                             \o (IF i < Len(StatementsOfCall) THEN "," ELSE ""))

(***************************************************************************)
(* C14, amended.  In the TypeScript CDK renderer the statement constructs  *)
(* of the statements list are separated by commas and the closing line of  *)
(* the last statement carries no comma; in the Python CDK renderer the     *)
(* closing line of every statement construct, the last one too, carries a  *)
(* comma; for every number n >= 1 of statements.                           *)
(***************************************************************************)
C14_StatementCommaPerRenderer ==
    \A format \in {"cdk-ts", "cdk-py"} :
        (Returned_(format) /\ Len(StatementsOfCall) >= 1) =>
            /\ Len(OpenIndexes) = Len(StatementsOfCall)
            /\ \A i \in DOMAIN StatementsOfCall :
                   StatementCloseLine(i) =
                       IF format = "cdk-py" THEN At(2, "),")
                       ELSE IF i < Len(StatementsOfCall) THEN At(2, "}),")
                       ELSE At(2, "})")

C14_Witness ==
    /\ Returned_("cdk-py")
    /\ Len(StatementsOfCall) = 2
    /\ StatementCloseLine(1) = At(2, "),")
    /\ StatementCloseLine(2) = At(2, "),")

\* Policies with lists of every kind, converted to Terraform.
SpecLists == InitLists /\ [][NextTf]_vars

(***************************************************************************)
(* Reading the bracketed lists of a Terraform rendering                    *)
(***************************************************************************)

\* The line without its leading spaces.
RECURSIVE Trim(_)
Trim(line) ==
    IF Len(line) > 0 /\ SubSeq(line, 1, 1) = " " THEN Trim(SubSeq(line, 2, Len(line)))
    ELSE line

\* The line opens a bracketed list: it ends with `= [`.
OpensList(line) == Len(line) >= 3 /\ SubSeq(line, Len(line) - 2, Len(line)) = "= ["

ListOpenIndexes == IndexesOf(trace.lines, OpensList)

\* The lines of the list that opens at line o, from its opening line to the
\* first `]` line after it.
ListLinesAt(o) ==
    LET c == CHOOSE c \in (o + 1)..(Len(trace.lines) + 1) :
                 /\ c <= Len(trace.lines) => Trim(trace.lines[c]) = "]"
                 /\ \A k \in (o + 1)..(c - 1) : Trim(trace.lines[k]) # "]"
    IN  SubSeq(trace.lines, o, IF c <= Len(trace.lines) THEN c ELSE Len(trace.lines))

\* The lists the rendering shows that have an element, in output order.
ShownLists ==
    SelectSeq([i \in DOMAIN ListOpenIndexes |-> ListLinesAt(ListOpenIndexes[i])],
              LAMBDA list : Len(list) > 2)

\* A list as it is wanted: the opening line at depth k, one quoted
\* element per line at depth k + 1, a comma after all but the last, `]`.
WantedList(k, name, values) ==
    <<At(k, name \o " = [")>>
    \o [i \in DOMAIN values |->
           At(k + 1, Q(values[i]) \o (IF i < Len(values) THEN "," ELSE ""))]
    \o <<At(k, "]")>>

\* The lists of one statement that have an element, in the order of the
\* Terraform arguments: actions, resources, principals, conditions.
WantedListsOf(statement) ==
    LET types == FirstSeenTypes(statement.principals)
    IN  (IF statement.action # Undefined /\ statement.actions # << >>
         THEN <<WantedList(2, IF statement.action = "Action" THEN "actions"
                              ELSE "not_actions", statement.actions)>>
         ELSE << >>)
        \o (IF statement.resource # Undefined /\ statement.resources # << >>
            THEN <<WantedList(2, IF statement.resource = "Resource" THEN "resources"
                                 ELSE "not_resources", statement.resources)>>
            ELSE << >>)
        \o (IF statement.principal # Undefined /\ ~statement.wildcard
            THEN [i \in DOMAIN types |->
                     WantedList(3, "identifiers",
                                ValuesOfType(statement.principals, types[i]))]
            ELSE << >>)
        \o [j \in DOMAIN statement.conditions |->
               WantedList(3, "values  ", statement.conditions[j].values)]

WantedLists ==
    LET f[n \in 0..Len(StatementsOfCall)] ==
            IF n = 0 THEN << >> ELSE f[n - 1] \o WantedListsOf(StatementsOfCall[n])
    IN  f[Len(StatementsOfCall)]

(***************************************************************************)
(* C15.  In the Terraform rendering every bracketed list that has an       *)
(* element (actions, not_actions, resources, not_resources, principal      *)
(* identifiers, condition values) shows one double-quoted element per      *)
(* line, in input order, with a comma after every element except the last  *)
(* and none after the last; a list of one element shows no comma at all.   *)
(***************************************************************************)
C15_TfListCommas ==
    Returned_("tf") => ShownLists = WantedLists

C15_Witness ==
    /\ Returned_("tf")
    /\ Len(StatementsOfCall) = 1
    /\ Len(StatementOfCall.actions) = 2
    /\ Len(StatementOfCall.resources) = 1
    /\ Len(FirstSeenTypes(StatementOfCall.principals)) = 1
    /\ Len(StatementOfCall.principals) = 2
    /\ Len(StatementOfCall.conditions) = 1
    /\ Len(ShownLists) = 4
    /\ ShownLists = WantedLists

\* The lines of the i-th statement block that are the line `line`.
CountLine(i, line) ==
    Cardinality({ k \in DOMAIN StatementLines(i) : StatementLines(i)[k] = line })

(***************************************************************************)
(* C16.  In the Terraform rendering, a statement whose action or           *)
(* not-action list is empty shows no `actions = [` or `not_actions = [`    *)
(* line, a statement whose resource or not-resource list is empty shows no *)
(* `resources = [` or `not_resources = [` line, and the statement shows as *)
(* many closing `]` lines of such arrays as it has non-empty lists: an     *)
(* empty array is omitted entirely, also when the statement carries the    *)
(* element the list belongs to.                                            *)
(***************************************************************************)
C16_EmptyArrayOmitted ==
    Returned_("tf") =>
        /\ Len(OpenIndexes) = Len(StatementsOfCall)
        /\ \A i \in DOMAIN StatementsOfCall :
               LET statement == StatementsOfCall[i]
               IN  /\ statement.actions = << >> =>
                          \A name \in {"actions", "not_actions"} :
                              CountLine(i, At(2, name \o " = [")) = 0
                   /\ statement.resources = << >> =>
                          \A name \in {"resources", "not_resources"} :
                              CountLine(i, At(2, name \o " = [")) = 0
                   /\ CountLine(i, At(2, "]")) =
                          (IF statement.actions = << >> THEN 0 ELSE 1)
                          + (IF statement.resources = << >> THEN 0 ELSE 1)

(***************************************************************************)
(* Reading the condition blocks of a Terraform rendering                   *)
(***************************************************************************)

\* The lines that open a condition block, ascending.
ConditionOpenIndexes == IndexesOf(trace.lines, LAMBDA l : l = At(2, "condition {"))

\* Line k of the rendering, or no line when the rendering is shorter.
LineAt(k) == IF k \in DOMAIN trace.lines THEN trace.lines[k] ELSE Undefined

\* The block that opens at line o holds this entry and nothing else: its
\* operator as test, its key as variable, its values as values, then `}`.
BlockHoldsEntry(o, entry) ==
    /\ LineAt(o + 1) = At(3, "test     = " \o Q(entry.op))
    /\ LineAt(o + 2) = At(3, "variable = " \o Q(entry.key))
    /\ LineAt(o + 3) = At(3, "values   = [")
    /\ \A j \in DOMAIN entry.values :
           Trim(LineAt(o + 3 + j)) \in {Q(entry.values[j]), Q(entry.values[j]) \o ","}
    /\ LineAt(o + 4 + Len(entry.values)) = At(3, "]")
    /\ LineAt(o + 5 + Len(entry.values)) = At(2, "}")

(***************************************************************************)
(* C17.  In the Terraform rendering a statement has as many condition      *)
(* blocks as it has Condition entries: the j-th block holds the j-th       *)
(* entry's operator as test, its key as variable and its own value list as *)
(* values, and entries that share an operator and a key stay blocks of     *)
(* their own.                                                              *)
(***************************************************************************)
C17_BlockPerCondition ==
    Returned_("tf") =>
        /\ Len(ConditionOpenIndexes) = Len(EntriesOfCall)
        /\ \A j \in DOMAIN EntriesOfCall :
               BlockHoldsEntry(ConditionOpenIndexes[j], EntriesOfCall[j])

C17_Witness ==
    /\ Returned_("tf")
    /\ Len(EntriesOfCall) = 3
    /\ EntriesOfCall[1].op = EntriesOfCall[3].op
    /\ EntriesOfCall[1].key = EntriesOfCall[3].key
    /\ EntriesOfCall[1].values # EntriesOfCall[3].values
    /\ EntriesOfCall[2].key # EntriesOfCall[1].key
    /\ Len(ConditionOpenIndexes) = 3
    /\ BlockHoldsEntry(ConditionOpenIndexes[3], EntriesOfCall[3])

\* Plain policies converted to each registered format with indentBy and
\* lineSeparator left out, undefined or supplied.
SpecOptions == Init /\ [][NextOptions]_vars

(***************************************************************************)
(* Reading the indent unit and the line separator of a rendering           *)
(***************************************************************************)

\* The line separator the call asks for: the caller's value when the options
\* hold one, the default otherwise (IndentUnit is the same for the indent).
WantedSeparator ==
    IF "lineSeparator" \in call.options.has /\ call.options.lineSeparator # Undefined
    THEN call.options.lineSeparator ELSE "\n"

\* How many times the line starts with the unit, and what follows them.
RECURSIVE UnitsOf(_, _)
UnitsOf(line, unit) ==
    IF Len(unit) > 0 /\ Len(line) >= Len(unit) /\ SubSeq(line, 1, Len(unit)) = unit
    THEN 1 + UnitsOf(SubSeq(line, Len(unit) + 1, Len(line)), unit)
    ELSE 0

AfterUnits(line, unit) ==
    SubSeq(line, UnitsOf(line, unit) * Len(unit) + 1, Len(line))

\* The line is whole indent units followed by text that starts with no blank.
IndentedBy(line, unit) ==
    LET rest == AfterUnits(line, unit)
    IN  Len(rest) > 0 => SubSeq(rest, 1, 1) \notin {" ", "\t"}

\* The lines with the separator between each two of them, from the left.
Joined(lines, separator) ==
    LET f[n \in 0..Len(lines)] ==
            IF n = 0 THEN ""
            ELSE IF n = 1 THEN lines[1]
            ELSE f[n - 1] \o separator \o lines[n]
    IN  f[Len(lines)]

(***************************************************************************)
(* C18.  convert renders with the caller's indentBy and lineSeparator when *)
(* the caller supplies them, and with the defaults (two spaces, \n) for    *)
(* each of the two the caller leaves out or passes as undefined, whatever  *)
(* the other one is: every line is whole indent units of the wanted unit   *)
(* followed by its text, the first line has no indentation, the second     *)
(* line of a rendering of three lines or more has exactly one unit, and    *)
(* the text returned is the lines joined with the wanted separator.        *)
(***************************************************************************)
C18_OptionsOrDefaults ==
    (call.made /\ result.status = "ok") =>
        /\ \A k \in DOMAIN trace.lines : IndentedBy(trace.lines[k], IndentUnit)
        /\ UnitsOf(trace.lines[1], IndentUnit) = 0
        /\ Len(trace.lines) >= 3 => UnitsOf(trace.lines[2], IndentUnit) = 1
        /\ result.text = Joined(trace.lines, WantedSeparator)

C18_Witness ==
    /\ Returned_("tf")
    /\ call.options.has = {"indentBy", "lineSeparator"}
    /\ call.options.indentBy = "\t"
    /\ call.options.lineSeparator = Undefined
    /\ Len(trace.lines) >= 4
    /\ trace.lines[2] = "\tstatement {"
    /\ result.text = Joined(trace.lines, "\n")

\* A caller driving one StringBuffer with any sequence of calls.
SpecBuffer == InitBuffer /\ [][NextBuffer]_vars

(***************************************************************************)
(* C19.  After any sequence of indent, unindent, pushLine and withIndent   *)
(* calls the depth of the buffer is a non-negative integer: an indent at   *)
(* depth d leaves d + 1, an unindent at depth d > 0 leaves d - 1, and an   *)
(* unindent at depth 0 is a call like any other that leaves depth 0.       *)
(***************************************************************************)
C19_DepthNeverNegative ==
    /\ lineBuffer.indentLevel \in Nat
    /\ bufferCall.name = "indent" => lineBuffer.indentLevel = bufferCall.depth + 1
    /\ (bufferCall.name = "unindent" /\ bufferCall.depth > 0) => lineBuffer.indentLevel = bufferCall.depth - 1
    /\ (bufferCall.name = "unindent" /\ bufferCall.depth = 0) => lineBuffer.indentLevel = 0

C19_Witness ==
    /\ bufferCall.name = "unindent"
    /\ bufferCall.depth = 0
    /\ lineBuffer.indentLevel = 0
    /\ Len(lineBuffer.buffer) > 0

(***************************************************************************)
(* C20, as stated.  For every depth d and every body, withIndent(body)     *)
(* invokes the body exactly once, on the same buffer at depth d + 1, and   *)
(* leaves the depth equal to d when it returns; also for a body that       *)
(* pushes no line and for a body that calls indent, unindent or            *)
(* withIndent itself.                                                      *)
(***************************************************************************)
C20_DepthRestored ==
    bufferCall.name = "withIndent" =>
        /\ Len(lineBuffer.entered) = 1
        /\ lineBuffer.entered[1].depth = bufferCall.depth + 1
        /\ lineBuffer.entered[1].lines = bufferCall.lines
        /\ lineBuffer.indentLevel = bufferCall.depth

(***************************************************************************)
(* C20, amended.  For every depth d and every body, withIndent(body)       *)
(* invokes the body exactly once, on the same buffer at depth d + 1, and   *)
(* when it returns leaves the depth one below the depth the body returned  *)
(* at, and 0 if the body returned at depth 0: that is d whenever the body  *)
(* returns at the depth it was entered at, as a body that pushes no line   *)
(* or only pushes lines does.                                              *)
(***************************************************************************)
C20_DepthOneBelowBody ==
    bufferCall.name = "withIndent" =>
        /\ Len(lineBuffer.entered) = 1
        /\ lineBuffer.entered[1].depth = bufferCall.depth + 1
        /\ lineBuffer.entered[1].lines = bufferCall.lines
        /\ Len(lineBuffer.left) = 1
        /\ lineBuffer.indentLevel =
               (IF lineBuffer.left[1] > 0 THEN lineBuffer.left[1] - 1 ELSE 0)
        /\ lineBuffer.left[1] = bufferCall.depth + 1 => lineBuffer.indentLevel = bufferCall.depth
        /\ (\A i \in DOMAIN bufferCall.body : bufferCall.body[i] \in {"pushLine", "withIndent"}) =>
               lineBuffer.indentLevel = bufferCall.depth

C20_Witness ==
    /\ bufferCall.name = "withIndent"
    /\ bufferCall.depth = 1
    /\ bufferCall.body = <<"unindent", "pushLine">>
    /\ lineBuffer.entered = <<[depth |-> 2, lines |-> bufferCall.lines]>>
    /\ lineBuffer.left = <<1>>
    /\ lineBuffer.indentLevel = 0

\* A caller driving a StringBuffer built with or without an indent unit and a
\* line separator, and reading its text at any moment.
SpecText == InitText /\ [][NextText]_vars

(***************************************************************************)
(* Reading the lines of a buffer before and after a call                   *)
(***************************************************************************)

\* The unit d times over, built from the left.
Indentation(unit, d) ==
    LET f[n \in 0..d] == IF n = 0 THEN "" ELSE f[n - 1] \o unit
    IN  f[d]

\* The lines before the call are the first lines after it, in their order.
KeepsLines ==
    /\ Len(bufferCall.lines) <= Len(lineBuffer.buffer)
    /\ SubSeq(lineBuffer.buffer, 1, Len(bufferCall.lines)) = bufferCall.lines

(***************************************************************************)
(* C21.  pushLine(text) at depth d adds exactly one line, the indent unit  *)
(* d times followed by text, at the end of the lines, and leaves the depth *)
(* and the lines pushed before as they were; indent, unindent and toString *)
(* leave the lines as they were, and withIndent adds only the lines its    *)
(* body pushes: after every call the lines before it are a prefix of the   *)
(* lines after it.                                                         *)
(***************************************************************************)
C21_LinesOnlyAppended ==
    /\ KeepsLines
    /\ bufferCall.name = "pushLine" =>
           /\ lineBuffer.buffer =
                  Append(bufferCall.lines,
                         Indentation(lineBuffer.indentBy, bufferCall.depth)
                             \o bufferCall.text)
           /\ lineBuffer.indentLevel = bufferCall.depth
    /\ bufferCall.name \in {"indent", "unindent", "toString"} =>
           lineBuffer.buffer = bufferCall.lines
    /\ bufferCall.name = "withIndent" =>
           Len(lineBuffer.buffer) = Len(bufferCall.lines) + Pushes(bufferCall.body)

C21_Witness ==
    /\ bufferCall.name = "pushLine"
    /\ bufferCall.depth = 2
    /\ bufferCall.text = "x"
    /\ lineBuffer.indentBy = "\t"
    /\ Len(bufferCall.lines) = 1
    /\ lineBuffer.buffer = Append(bufferCall.lines, "\t\tx")

\* The lengths of the lines, added up.
TotalLength(lines) ==
    LET f[n \in 0..Len(lines)] == IF n = 0 THEN 0 ELSE f[n - 1] + Len(lines[n])
    IN  f[Len(lines)]

(***************************************************************************)
(* C22.  toString returns the pushed lines in push order joined by the     *)
(* buffer's line separator, which is \n unless the buffer was built with   *)
(* \r\n: n >= 1 lines give n - 1 separators, none leading or trailing, an  *)
(* empty buffer gives the empty string, and the call changes neither the   *)
(* lines nor the depth.                                                    *)
(***************************************************************************)
C22_ToStringJoins ==
    bufferCall.name = "toString" =>
        /\ lineBuffer.lineSeparator \in {"\n", "\r\n"}
        /\ bufferCall.returned = Joined(bufferCall.lines, lineBuffer.lineSeparator)
        /\ bufferCall.lines = << >> => bufferCall.returned = ""
        /\ bufferCall.lines # << >> =>
               Len(bufferCall.returned) =
                   TotalLength(bufferCall.lines)
                   + (Len(bufferCall.lines) - 1) * Len(lineBuffer.lineSeparator)
        /\ lineBuffer.buffer = bufferCall.lines
        /\ lineBuffer.indentLevel = bufferCall.depth

C22_Witness ==
    /\ bufferCall.name = "toString"
    /\ lineBuffer.lineSeparator = "\r\n"
    /\ bufferCall.lines = <<"x", "  x">>
    /\ bufferCall.returned = "x\r\n  x"
    /\ lineBuffer.indentLevel = 1

\* Raw documents of every shape, converted to CloudFormation with each unit.
SpecYaml == InitYaml /\ [][NextCf]_vars

(***************************************************************************)
(* Reading a CloudFormation rendering against the raw document             *)
(***************************************************************************)

\* The raw document of the call.
DocumentOfCall == call.policy.raw

IsScalar(value) == value.t \notin {"array", "object"}

\* A container with nothing in it.
IsEmpty(value) == ~IsScalar(value) /\ value.items = << >>

\* The lines a value takes: a scalar or an empty container one, an array
\* those of its elements, an object one per key that holds a scalar and one
\* more than the value's for every other key.
RECURSIVE LineCount(_)
LineCount(value) ==
    IF IsScalar(value) \/ IsEmpty(value) THEN 1
    ELSE LET f[n \in 0..Len(value.items)] ==
                 IF n = 0 THEN 0
                 ELSE f[n - 1]
                      + (IF value.t = "array" THEN LineCount(value.items[n])
                         ELSE IF IsScalar(value.items[n].val) THEN 1
                         ELSE 1 + LineCount(value.items[n].val))
         IN  f[Len(value.items)]

\* What each line of a value that starts at line `at` holds, in line order:
\*   role "item"  : a scalar element of an array
\*   role "alone" : a value on a line of its own (an empty container)
\*   role "plain" : a key of an object that is no array element
\*   role "first" : the first key of an object that is an array element
\*   role "rest"  : a later key of such an object; `head` is the line of the
\*                  first key of the same object.
RECURSIVE Rows(_, _, _)
Rows(value, at, inArray) ==
    IF IsScalar(value) \/ IsEmpty(value)
    THEN <<[line |-> at, role |-> "alone", head |-> at, name |-> Undefined, val |-> value]>>
    ELSE LET f[n \in 0..Len(value.items)] ==
                 IF n = 0 THEN [next |-> at, rows |-> << >>]
                 ELSE LET item == value.items[n]
                          here == f[n - 1].next
                      IN  IF value.t = "array"
                          THEN [next |-> here + LineCount(item),
                                rows |-> f[n - 1].rows \o
                                    (IF IsScalar(item)
                                     THEN <<[line |-> here, role |-> "item", head |-> here,
                                             name |-> Undefined, val |-> item]>>
                                     ELSE Rows(item, here, TRUE))]
                          ELSE [next |-> here + (IF IsScalar(item.val) THEN 1
                                                 ELSE 1 + LineCount(item.val)),
                                rows |-> f[n - 1].rows \o
                                    <<[line |-> here,
                                       role |-> IF ~inArray THEN "plain"
                                                ELSE IF n = 1 THEN "first" ELSE "rest",
                                       head |-> at, name |-> item.name, val |-> item.val]>>
                                    \o (IF IsScalar(item.val) THEN << >>
                                        ELSE Rows(item.val, here + 1, FALSE))]
         IN  f[Len(value.items)].rows

\* The rows of the rendering: the document starts on the second line.
RowsOfCall == Rows(DocumentOfCall, 2, FALSE)

\* Every line of the rendering has its row.
RowsMatchLines ==
    /\ Len(trace.lines) = 1 + LineCount(DocumentOfCall)
    /\ Len(RowsOfCall) = LineCount(DocumentOfCall)
    /\ \A r \in DOMAIN RowsOfCall : RowsOfCall[r].line = r + 1

\* The blanks (spaces and tabs) a line starts with, counted.
RECURSIVE Blanks(_)
Blanks(line) ==
    IF Len(line) > 0 /\ SubSeq(line, 1, 1) \in {" ", "\t"}
    THEN 1 + Blanks(SubSeq(line, 2, Len(line)))
    ELSE 0

\* The line without them.
Text(line) == SubSeq(line, Blanks(line) + 1, Len(line))

\* The column (from 0) where the key's name starts on the line of row r: after
\* the blanks, and after the dash and the space of a first key.
NameColumn(row) ==
    Blanks(trace.lines[row.line]) + (IF row.role = "first" THEN 2 ELSE 0)

(***************************************************************************)
(* C23.  In the CloudFormation rendering, for every array element that is  *)
(* a non-empty object the first key is written as `- <key>` and every      *)
(* other key of the element starts in the column where the first key's     *)
(* name starts, the column right after `- `, with every indent unit.       *)
(***************************************************************************)
C23_KeysAlignedUnderFirst ==
    Returned_("cf") =>
        /\ RowsMatchLines
        /\ \A r \in DOMAIN RowsOfCall :
               LET row == RowsOfCall[r]
               IN  /\ row.role = "first" =>
                          /\ StartsWith(Text(trace.lines[row.line]), "- ")
                          /\ UnitsOf(trace.lines[row.line], IndentUnit) * Len(IndentUnit)
                                 = Blanks(trace.lines[row.line])
                   /\ row.role = "rest" =>
                          Blanks(trace.lines[row.line])
                              = Blanks(trace.lines[row.head]) + 2

\* The line ends with the text.
EndsWith(line, text) ==
    Len(line) >= Len(text) /\ SubSeq(line, Len(line) - Len(text) + 1, Len(line)) = text

\* A scalar as YAML shows it: a string between double quotes, a number or a
\* boolean as it is written, null as `null`.
ScalarText(value) ==
    IF value.t = "string" THEN "\"" \o value.s \o "\""
    ELSE IF value.t = "null" THEN "null"
    ELSE value.s

(***************************************************************************)
(* C24.  In the CloudFormation rendering every scalar is written by its    *)
(* type, as the value of a key and as an element of an array alike: a      *)
(* string between double quotes, a number or boolean bare, null as `null`; *)
(* an empty object is the line `{}` and an empty array the line `[]`.      *)
(***************************************************************************)
C24_ScalarsByType ==
    Returned_("cf") =>
        /\ RowsMatchLines
        /\ \A r \in DOMAIN RowsOfCall :
               LET row  == RowsOfCall[r]
                   line == trace.lines[row.line]
               IN  /\ row.role = "item" => Text(line) = "- " \o ScalarText(row.val)
                   /\ (row.role \in {"plain", "first", "rest"} /\ IsScalar(row.val)) =>
                          EndsWith(line, ": " \o ScalarText(row.val))
                   /\ (row.role = "alone" /\ IsEmpty(row.val)) =>
                          Text(line) = (IF row.val.t = "object" THEN "{}" ELSE "[]")

C24_Witness ==
    /\ Returned_("cf")
    /\ RowsMatchLines
    /\ \E r \in DOMAIN RowsOfCall :
           /\ RowsOfCall[r].role = "item" /\ RowsOfCall[r].val.t = "null"
           /\ Text(trace.lines[RowsOfCall[r].line]) = "- null"
    /\ \E r \in DOMAIN RowsOfCall :
           /\ RowsOfCall[r].role = "item" /\ RowsOfCall[r].val.t = "boolean"
           /\ Text(trace.lines[RowsOfCall[r].line]) = "- false"
    /\ \E r \in DOMAIN RowsOfCall :
           /\ RowsOfCall[r].role = "first" /\ RowsOfCall[r].val = JString("")
           /\ Text(trace.lines[RowsOfCall[r].line]) = "- Sid: \"\""
    /\ \E r \in DOMAIN RowsOfCall :
           /\ RowsOfCall[r].role = "alone" /\ RowsOfCall[r].val = JObject(<< >>)
           /\ Text(trace.lines[RowsOfCall[r].line]) = "{}"

\* The characters a bare key is made of.
BareKeyCharacters == "ABCDEFGHIJKLMNOPQRSTUVWXYZabcdefghijklmnopqrstuvwxyz0123456789_"

IsBareKeyCharacter(c) ==
    \E i \in 1..Len(BareKeyCharacters) : SubSeq(BareKeyCharacters, i, i) = c

\* How many times the text starts with a dash and a space.
DashPrefixes(text) == UnitsOf(text, "- ")

\* The key as it is to be written: the dash-space prefixes as they
\* are, and what follows them bare if it is non-empty and made of bare key
\* characters only, between double quotes otherwise.
WantedKey(text) ==
    LET rest == AfterUnits(text, "- ")
        bare == /\ Len(rest) > 0
                /\ \A i \in 1..Len(rest) : IsBareKeyCharacter(SubSeq(rest, i, i))
    IN  Indentation("- ", DashPrefixes(text))
        \o (IF bare THEN rest ELSE "\"" \o rest \o "\"")

\* The key text the quoting step is given for a row: the key's name, after a
\* dash and a space for the first key of an array element.
HandedKey(row) == (IF row.role = "first" THEN "- " ELSE "") \o row.name

(***************************************************************************)
(* C25.  In the CloudFormation rendering a key is written bare exactly     *)
(* when it is non-empty and made of characters of [A-Za-z0-9_] only, and   *)
(* between double quotes otherwise; a dash-space prefix of the key text    *)
(* stays outside the quotes and the rule applies to what follows it, so    *)
(* the dash of an array element is never inside the quotes.                *)
(***************************************************************************)
C25_KeyQuoting ==
    Returned_("cf") =>
        /\ RowsMatchLines
        /\ \A r \in DOMAIN RowsOfCall :
               LET row  == RowsOfCall[r]
                   line == trace.lines[row.line]
               IN  row.role \in {"plain", "first", "rest"} =>
                       Text(line) = WantedKey(HandedKey(row))
                                    \o (IF IsScalar(row.val)
                                        THEN ": " \o ScalarText(row.val) ELSE ":")

C25_Witness ==
    /\ Returned_("cf")
    /\ RowsMatchLines
    /\ \E r \in DOMAIN RowsOfCall :
           /\ RowsOfCall[r].role = "first" /\ RowsOfCall[r].name = "aws:x"
           /\ Text(trace.lines[RowsOfCall[r].line]) = "- \"aws:x\": 1"
    /\ \E r \in DOMAIN RowsOfCall :
           /\ RowsOfCall[r].role = "rest" /\ RowsOfCall[r].name = ""
           /\ Text(trace.lines[RowsOfCall[r].line]) = "\"\": \"Allow\""

\* The rows of keys whose value is a container with something in it.
NestingRows ==
    SelectSeq(RowsOfCall,
              LAMBDA row : /\ row.role \in {"plain", "first", "rest"}
                           /\ ~IsScalar(row.val) /\ ~IsEmpty(row.val))

\* The lines of the value nested under the key of the row.
NestedLines(row) == (row.line + 1)..(row.line + LineCount(row.val))

(***************************************************************************)
(* C29, as stated.  In the CloudFormation rendering, a key whose value is  *)
(* a non-empty object or array is written as `key:` and every line of the  *)
(* nested value starts in a column strictly to the right of the column     *)
(* where the key's name starts, also when the key is the dash-prefixed     *)
(* first key of an array element.                                          *)
(***************************************************************************)
C29_NestedRightOfName ==
    Returned_("cf") =>
        /\ RowsMatchLines
        /\ \A r \in DOMAIN NestingRows :
               LET row == NestingRows[r]
               IN  /\ EndsWith(trace.lines[row.line], ":")
                   /\ \A k \in NestedLines(row) :
                          Blanks(trace.lines[k]) > NameColumn(row)

(***************************************************************************)
(* C29, amended.  In the CloudFormation rendering, a key whose value is a  *)
(* non-empty object or array is written as `key:` and every line of the    *)
(* nested value starts at least one indent unit to the right of the        *)
(* column where the key's line starts (the first of them exactly one       *)
(* unit): that is strictly to the right of the key's name when the key has *)
(* no dash before it, and for the dash-prefixed first key of an array      *)
(* element it is the dash's column plus one unit, which with the unit of   *)
(* two characters is the column of the key's name itself.                  *)
(***************************************************************************)
C29_NestedOneUnitDeeper ==
    Returned_("cf") =>
        /\ RowsMatchLines
        /\ \A r \in DOMAIN NestingRows :
               LET row   == NestingRows[r]
                   start == Blanks(trace.lines[row.line])
               IN  /\ EndsWith(trace.lines[row.line], ":")
                   /\ Blanks(trace.lines[row.line + 1]) = start + Len(IndentUnit)
                   /\ \A k \in NestedLines(row) :
                          /\ Blanks(trace.lines[k]) >= start + Len(IndentUnit)
                          /\ row.role # "first" => Blanks(trace.lines[k]) > NameColumn(row)
                          /\ (row.role = "first" /\ Len(IndentUnit) = 2) =>
                                 Blanks(trace.lines[k]) >= NameColumn(row)
                   /\ (row.role = "first" /\ Len(IndentUnit) = 2) =>
                          Blanks(trace.lines[row.line + 1]) = NameColumn(row)

C29_Witness ==
    /\ Returned_("cf")
    /\ call.options = NoOptions
    /\ \E r \in DOMAIN NestingRows :
           /\ NestingRows[r].role = "first"
           /\ NestingRows[r].name = "Condition"
           /\ trace.lines[NestingRows[r].line] = "    - Condition:"
           /\ trace.lines[NestingRows[r].line + 1] = "      StringLike:"

(***************************************************************************)
(* Reading the form of a condition value of a CDK rendering                *)
(***************************************************************************)

\* The pairs of operator and key among the entries of the call.
PairsOfCall == { <<EntriesOfCall[i].op, EntriesOfCall[i].key>> : i \in DOMAIN EntriesOfCall }

\* The lines of the operator's block: from the line after its opening line
\* to the line before the `},` that closes it.
OperatorBlock(op) ==
    LET opens == IndexesOf(trace.lines, LAMBDA l : l = OperatorLine(op))
    IN  IF opens = << >> THEN << >>
        ELSE LET o == opens[1]
                 c == CHOOSE c \in (o + 1)..(Len(trace.lines) + 1) :
                          /\ c <= Len(trace.lines) => trace.lines[c] = At(4, "},")
                          /\ \A k \in (o + 1)..(c - 1) : trace.lines[k] # At(4, "},")
             IN  SubSeq(trace.lines, o + 1, c - 1)

\* The key's lines in the block that hold a scalar, and those that open a list.
ScalarLines(block, key) ==
    SelectSeq(block, LAMBDA l : StartsWith(l, At(5, Q(key) \o ": \"")))

ListOpens(block, key) == IndexesOf(block, LAMBDA l : l = At(5, Q(key) \o ": ["))

\* The lines of the list that opens at line o of the block, up to its `],`.
ListElements(block, o) ==
    LET c == CHOOSE c \in (o + 1)..(Len(block) + 1) :
                 /\ c <= Len(block) => block[c] = At(5, "],")
                 /\ \A k \in (o + 1)..(c - 1) : block[k] # At(5, "],")
    IN  SubSeq(block, o + 1, c - 1)

(***************************************************************************)
(* C26.  In the CDK renderings, for each operator and key of a statement:  *)
(* when the Condition entries with that operator and key hold one value in *)
(* all, it is written as a quoted scalar on the key's line, and when they  *)
(* hold more than one, as a list with one quoted element per line; for     *)
(* every value, the empty string too.                                      *)
(***************************************************************************)
C26_ScalarOrList ==
    \A format \in {"cdk-ts", "cdk-py"} :
        Returned_(format) =>
            \A pair \in PairsOfCall :
                LET values == ValuesInEntryOrder(EntriesOfCall, pair[1], pair[2])
                    block  == OperatorBlock(pair[1])
                    opens  == ListOpens(block, pair[2])
                IN  /\ Len(values) = 1 =>
                           /\ ScalarLines(block, pair[2])
                                  = <<At(5, Q(pair[2]) \o ": " \o Q(values[1]) \o ",")>>
                           /\ opens = << >>
                    /\ Len(values) > 1 =>
                           /\ ScalarLines(block, pair[2]) = << >>
                           /\ Len(opens) = 1
                           /\ ListElements(block, opens[1])
                                  = [i \in DOMAIN values |-> At(6, Q(values[i]) \o ",")]

(***************************************************************************)
(* Callbacks and accessors that throw                                      *)
(***************************************************************************)

ThrowInstructions == {"pushLine", "withIndent", "throw", "withIndentThrow"}

ThrowingBodies ==
    { body \in SeqsOf(ThrowInstructions, 1, MaxBody) :
          \E i \in DOMAIN body : body[i] \in {"throw", "withIndentThrow"} }

\* Policies of which a statement's sid() may throw.
ThrowStatements ==
    { [EmptyStatement EXCEPT !.sid = sid, !.effect = "Allow"] : sid \in {"test1", Throws} }

ThrowPolicies == { Policy(Undefined, statements) : statements \in SeqsOf(ThrowStatements, 0, MaxStmts) }

InitThrow == \E p \in ThrowPolicies : NotCalled(p)

\* convert in the formats whose renderer reads sid(), and a caller of the
\* buffer who passes callbacks that throw, at any depth.
NextThrow ==
    \/ \E format \in {"tf", "cdk-ts", "cdk-py"}, options \in UnitOptions :
           Convert(format, options)
    \/ Indent
    \/ \E body \in ThrowingBodies : WithIndent(body)

SpecThrow == InitThrow /\ [][NextThrow]_vars

\* The callback's calls before the one that throws, and the one that throws.
RECURSIVE BeforeThrow(_)
BeforeThrow(body) ==
    IF body = << >> \/ Head(body) \in {"throw", "withIndentThrow"} THEN << >>
    ELSE <<Head(body)>> \o BeforeThrow(Tail(body))

Thrower(body) == body[Len(BeforeThrow(body)) + 1]

\* The lines a callback entered at depth d has pushed when it throws.
PushedBeforeThrow(body, d, unit) ==
    [i \in DOMAIN BeforeThrow(body) |->
         IF body[i] = "pushLine" THEN repeat(unit, d) \o "x"
         ELSE repeat(unit, d + 1) \o "y"]
    \o (IF Thrower(body) = "withIndentThrow" THEN <<repeat(unit, d + 1) \o "y">> ELSE << >>)

\* The first statement of the call whose sid() throws, 0 when none does.
FirstThrowing ==
    LET throwing == { i \in DOMAIN call.policy.statements :
                          call.policy.statements[i].sid = Throws }
    IN  IF throwing = {} THEN 0
        ELSE CHOOSE i \in throwing : \A j \in throwing : i <= j

(***************************************************************************)
(* C27.  When the callback passed to withIndent throws, the depth is not   *)
(* restored: the buffer is left one deeper than before the call, and one   *)
(* more for each withIndent that was active inside it when the throw came, *)
(* with the lines pushed before the throw in it after the lines it had. A  *)
(* convert whose renderer meets a throwing sid() ends with that exception  *)
(* and no text, its buffer at the depth of the statement's fields and its  *)
(* last line the opening line of the statement that threw.                 *)
(***************************************************************************)
C27_ThrowLeavesDepth ==
    /\ bufferCall.name = "withIndent" =>
           LET body   == bufferCall.body
               nested == IF Thrower(body) = "withIndentThrow" THEN 1 ELSE 0
           IN  /\ Raised(lineBuffer)
               /\ lineBuffer.indentLevel = bufferCall.depth + 1 + nested
               /\ lineBuffer.buffer
                      = bufferCall.lines
                        \o PushedBeforeThrow(body, bufferCall.depth + 1,
                                             lineBuffer.indentBy)
    /\ call.made /\ FirstThrowing > 0 =>
           /\ result.status = "error"
           /\ result.text = Undefined
           /\ trace.depth = (IF call.format = "tf" THEN 2 ELSE 3)
           /\ Len(OpenIndexes) = FirstThrowing
           /\ OpenIndexes[FirstThrowing] = Len(trace.lines)
           /\ trace.depth = UnitsOf(trace.lines[Len(trace.lines)], IndentUnit) + 1

C27_Witness ==
    /\ bufferCall.name = "withIndent"
    /\ bufferCall.body = <<"pushLine", "withIndentThrow">>
    /\ bufferCall.depth = 1
    /\ lineBuffer.indentLevel = 3
    /\ lineBuffer.buffer = <<"    x", "      y">>
    /\ call.made /\ call.format = "tf" /\ FirstThrowing = 2
    /\ result.status = "error"
    /\ trace.depth = 2

(***************************************************************************)
(* The separator lines of the Terraform rendering                          *)
(***************************************************************************)

\* Statements with and without a sid, an effect line, arrays, principals
\* blocks of each kind and condition blocks, for policies of several
\* statements.
BlockStatements ==
    { EmptyStatement,
      [EmptyStatement EXCEPT !.sid = "test1"],
      [EmptyStatement EXCEPT !.sid = "test1", !.effect = "Deny", !.action = "Action",
                             !.actions = Prefix(ActionNames, 2), !.resource = "Resource",
                             !.resources = Prefix(ResourceNames, 1)],
      [EmptyStatement EXCEPT !.effect = "Deny", !.principal = "Principal",
                             !.wildcard = TRUE,
                             !.principals = <<[type |-> "AWS", value |-> "*"]>>],
      [EmptyStatement EXCEPT !.sid = "test1", !.principal = "NotPrincipal",
                             !.principals = <<[type |-> "AWS", value |-> "p1"],
                                              [type |-> "Service", value |-> "p1"],
                                              [type |-> "AWS", value |-> "p2"]>>,
                             !.conditions =
                                 <<[op |-> "StringEquals", key |-> "s3:prefix",
                                    values |-> <<"home/">>]>>],
      [EmptyStatement EXCEPT !.effect = "Allow", !.action = "NotAction",
                             !.actions = Prefix(ActionNames, 1),
                             !.conditions =
                                 <<[op |-> "StringEquals", key |-> "s3:x-amz-acl",
                                    values |-> <<"public-read", "public-read-write">>],
                                   [op |-> "StringLike", key |-> "s3:x-amz-acl",
                                    values |-> <<"private">>]>>] }

BlockPolicies ==
    { Policy(Undefined, statements) : statements \in SeqsOf(BlockStatements, 1, MaxStmts) }

\* Options that name an indent unit, the empty one too, or none.
EmptyUnitOptions ==
    {NoOptions}
    \cup { [has |-> {"indentBy"}, indentBy |-> unit, lineSeparator |-> Undefined,
            variableName |-> Undefined] : unit \in {"", "\t"} }

InitBlocks == \E p \in BlockPolicies : NotCalled(p)

NextTfUnits == \E options \in EmptyUnitOptions : Convert("tf", options)

SpecBlocks == InitBlocks /\ [][NextTfUnits]_vars

\* The sid lines and the blocks a statement is to be rendered with: a sid
\* that is not empty, one principals block for the wildcard and else one for
\* each type among the principals, one condition block for each entry.
SeparatedParts(statement) ==
    (IF Truthy(statement.sid) THEN 1 ELSE 0)
    + (IF statement.principal = Undefined THEN 0
       ELSE IF statement.wildcard THEN 1
       ELSE Cardinality({ statement.principals[i].type : i \in DOMAIN statement.principals }))
    + Len(statement.conditions)

RECURSIVE SeparatedPartsOf(_)
SeparatedPartsOf(statements) ==
    IF statements = << >> THEN 0
    ELSE SeparatedParts(Head(statements)) + SeparatedPartsOf(Tail(statements))

\* A line that carries no text at the depth of a statement's fields.
Separator == repeat(IndentUnit, 2)

IsSidLine(line) == StartsWith(line, Separator \o "sid = \"")

(***************************************************************************)
(* C28.  In the tf rendering each sid line, each principals or             *)
(* not_principals block and each condition block is followed at once by    *)
(* exactly one line without text, which is the indent unit twice and so    *)
(* the empty string only when the unit is empty; no such line follows an   *)
(* effect line or the closing bracket of an array, and there is none       *)
(* besides these.                                                          *)
(***************************************************************************)
C28_SeparatorLines ==
    Returned_("tf") =>
        LET lines == trace.lines
            n     == Len(lines)
        IN  /\ Count(lines, LAMBDA l : l = Separator) = SeparatedPartsOf(StatementsOfCall)
            /\ \A i \in 1..n :
                   /\ IsSidLine(lines[i]) => i < n /\ lines[i + 1] = Separator
                   /\ (IndentUnit # "" /\ lines[i] = At(2, "}")) =>
                          i < n /\ lines[i + 1] = Separator
                   /\ lines[i] = Separator =>
                          /\ i > 1 /\ (IsSidLine(lines[i - 1]) \/ lines[i - 1] = At(2, "}"))
                          /\ i < n /\ lines[i + 1] # Separator
                          /\ Len(lines[i]) = 2 * Len(IndentUnit)
                          /\ (lines[i] = "") <=> (IndentUnit = "")
                   /\ (i < n /\ lines[i] \in {At(2, "effect = \"Deny\""), At(2, "]")}) =>
                          lines[i + 1] # Separator

C28_Witness ==
    /\ Returned_("tf")
    /\ IndentUnit = ""
    /\ \E i \in 1..(Len(trace.lines) - 6) :
           /\ trace.lines[i] = "sid = \"test1\""
           /\ trace.lines[i + 1] = ""
           /\ trace.lines[i + 2] = "effect = \"Deny\""
           /\ trace.lines[i + 3] = "actions = ["
    /\ \E i \in 1..(Len(trace.lines) - 1) :
           /\ trace.lines[i] = "not_principals {"
    /\ Count(trace.lines, LAMBDA l : l = "") = 5

(***************************************************************************)
(* The depth a renderer leaves its buffer at, and the nesting of the       *)
(* statements in its lines                                                 *)
(***************************************************************************)

\* Policies given by their statements, and policies given by a raw document
\* with containers in containers.
DepthPolicies ==
    BlockPolicies
    \cup { RawPolicy(JObject(<<[name |-> "Statement", val |-> JArray(os)]>>)) :
               os \in SeqsOf(DeepObjects, 0, MaxProps) }

InitDepth == \E p \in DepthPolicies : NotCalled(p)

\* convert in each registered format with each indent unit.
NextUnits ==
    \E format \in Registered, options \in UnitOptions \cup EmptyUnitOptions :
        Convert(format, options)

SpecDepth == InitDepth /\ [][NextUnits]_vars

\* The depth a line was pushed at, read from its indent units.
DepthOf(line) == UnitsOf(line, IndentUnit)

\* The text that opens a statement's construct, and the texts that close it.
OpenText ==
    IF call.format = "tf" THEN "statement {"
    ELSE IF call.format = "cdk-ts" THEN "new iam.PolicyStatement({"
    ELSE "iam.PolicyStatement("

CloseTexts ==
    IF call.format = "tf" THEN {"}"}
    ELSE IF call.format = "cdk-ts" THEN {"})", "}),"}
    ELSE {"),"}

OpeningLines == IndexesOf(trace.lines, LAMBDA l : Text(l) = OpenText)

(***************************************************************************)
(* C30.  Each of the four renderers returns with its buffer at the depth   *)
(* it was given it, zero under convert.  In the tf, cdk-ts and cdk-py      *)
(* renderings the first and the last line are at depth zero, there is one  *)
(* opening line for each statement, and after it every line is deeper      *)
(* than it up to the statement's closing line, which is at its depth.      *)
(* Depths are read from the lines when the indent unit is not empty.       *)
(***************************************************************************)
C30_DepthBalanced ==
    /\ (call.made /\ result.status = "ok") => trace.depth = 0
    /\ \A format \in {"tf", "cdk-ts", "cdk-py"} :
           Returned_(format) =>
               LET lines == trace.lines
                   n     == Len(lines)
               IN  /\ n >= 2
                   /\ Blanks(lines[1]) = 0 /\ Blanks(lines[n]) = 0
                   /\ IndentUnit # "" =>
                          /\ Len(OpeningLines) = Len(StatementsOfCall)
                          /\ \A j \in DOMAIN OpeningLines :
                                 LET o == OpeningLines[j]
                                 IN  \E c \in (o + 1)..n :
                                         /\ Text(lines[c]) \in CloseTexts
                                         /\ DepthOf(lines[c]) = DepthOf(lines[o])
                                         /\ Blanks(lines[c]) = Blanks(lines[o])
                                         /\ \A k \in (o + 1)..(c - 1) :
                                                /\ DepthOf(lines[k]) > DepthOf(lines[o])
                                                /\ Blanks(lines[k]) > Blanks(lines[o])

C30_Witness ==
    /\ Returned_("cdk-ts")
    /\ IndentUnit = "\t"
    /\ trace.depth = 0
    /\ Len(StatementsOfCall) = 2
    /\ Len(OpeningLines) = 2
    /\ \E c \in (OpeningLines[1] + 3)..(OpeningLines[2] - 1) :
           /\ trace.lines[c] = "\t\t}),"
           /\ DepthOf(trace.lines[c - 1]) > 2
    /\ trace.lines[Len(trace.lines)] = "});"

====
